---- MODULE Spec2Model ----
(***************************************************************************)
(* Wikipedia TOC scraper (src/toc_scraper/app.py): the URL policy          *)
(* validator validate_wikipedia_url, the scraper scrape_wikipedia_toc and  *)
(* the HTTP entry point lambda_handler.                                    *)
(*                                                                         *)
(* Text is modelled character by character.  A Python str is a sequence    *)
(* of characters; a character is a one-element TLA+ string for printable   *)
(* ASCII ("a", ":", "%") and the name of its code point for anything else  *)
(* ("U+7279").  So urlparse, unquote and re.match are computed on the      *)
(* characters of the URL, as the library code does.                        *)
(***************************************************************************)
EXTENDS Integers, Sequences, FiniteSets, TLC

VARIABLES
    url,        \* validate_wikipedia_url: the argument of the call
    inp,        \* how that argument was written: its pieces, in order
    vpc,        \* validate_wikipedia_url: "call" before, "returned" after
    accepted,   \* validate_wikipedia_url: first component of the result
    reason,     \* validate_wikipedia_url: second component of the result
    event,      \* lambda_handler: the inbound event
    hpc,        \* lambda_handler: position in the handler
    fetches,    \* number of HTTP GETs issued so far (requests.get calls)
    slept,      \* seconds spent in time.sleep so far
    raised,     \* the class of the exception raised in this execution, "none" if none
    result,     \* scrape_wikipedia_toc: the dict it returned
    response,   \* lambda_handler: the response it returned
    http_status, \* scrape_wikipedia_toc: response.status_code, 0 before the response
    doc,        \* scrape_wikipedia_toc: soup, the parsed page as a tree of nodes
    spc,        \* scrape_wikipedia_toc: position in the extraction
    cursor,     \* scrape_wikipedia_toc: loop index into toc_links or headings
    page_title, \* scrape_wikipedia_toc: title
    toc_items,  \* scrape_wikipedia_toc: toc_items
    calls,      \* concurrent invocations: the state of each, by its number
    now         \* concurrent invocations: the time, in seconds

\* The variables of the extraction inside scrape_wikipedia_toc.
scrapeVars == <<doc, spc, cursor, page_title, toc_items>>

\* The variables of the concurrent invocations.
concurrentVars == <<calls, now>>

vars == <<url, inp, vpc, accepted, reason, event, hpc, fetches, slept, raised, result, response,
          http_status,
          doc, spc, cursor, page_title, toc_items,
          calls, now>>

-----------------------------------------------------------------------------
(* Strings *)

\* The characters of a string literal.
Chars(s) == [i \in 1..Len(s) |-> SubSeq(s, i, i)]

\* Python's None, as an argument that is not a str.
None == <<"<None>">>

Min(S) == CHOOSE x \in S : \A y \in S : x <= y
Max(S) == CHOOSE x \in S : \A y \in S : x >= y

\* s[i:] and s[:i] of Python, with 1-based i.
From(s, i) == IF i > Len(s) THEN <<>> ELSE SubSeq(s, i, Len(s))
Upto(s, i) == IF i < 1 THEN <<>> ELSE SubSeq(s, 1, IF i > Len(s) THEN Len(s) ELSE i)

\* str.startswith, str.endswith
StartsWith(s, p) == Len(p) <= Len(s) /\ SubSeq(s, 1, Len(p)) = p
EndsWith(s, p) == Len(p) <= Len(s) /\ SubSeq(s, Len(s) - Len(p) + 1, Len(s)) = p

\* str.find(c, start) for a single character c: the first index >= start, or 0.
Find(s, c, start) ==
    LET I == {i \in start..Len(s) : s[i] = c}
    IN IF I = {} THEN 0 ELSE Min(I)

\* str.rfind(c): the last index, or 0.
RFind(s, c) ==
    LET I == {i \in 1..Len(s) : s[i] = c}
    IN IF I = {} THEN 0 ELSE Max(I)

\* "c in s" for a single character c.
HasChar(s, c) == \E i \in 1..Len(s) : s[i] = c

\* "p in s" for a substring p.
Contains(s, p) ==
    \E i \in 1..(Len(s) - Len(p) + 1) : SubSeq(s, i, i + Len(p) - 1) = p

\* str.replace(c, "") for each character c of the set C.
Remove(s, C) == SelectSeq(s, LAMBDA c : c \notin C)

UpperLetters == Chars("ABCDEFGHIJKLMNOPQRSTUVWXYZ")
LowerLetters == Chars("abcdefghijklmnopqrstuvwxyz")
Digits == Chars("0123456789")

Range(s) == {s[i] : i \in 1..Len(s)}

\* str.lower() / str.upper() on one character (ASCII letters; the other
\* characters of the model have no case).
LowerChar(c) ==
    LET I == {i \in 1..26 : UpperLetters[i] = c}
    IN IF I = {} THEN c ELSE LowerLetters[CHOOSE i \in I : TRUE]
UpperChar(c) ==
    LET I == {i \in 1..26 : LowerLetters[i] = c}
    IN IF I = {} THEN c ELSE UpperLetters[CHOOSE i \in I : TRUE]
Lower(s) == [i \in 1..Len(s) |-> LowerChar(s[i])]
Upper(s) == [i \in 1..Len(s) |-> UpperChar(s[i])]

\* The characters str.strip() removes.
Whitespace == {" ", "\t", "\n", "\r", "\f", "U+3000"}

\* str.lstrip(C), str.rstrip(C), str.strip()
LStrip(s, C) ==
    LET I == {i \in 1..Len(s) : s[i] \notin C}
    IN IF I = {} THEN <<>> ELSE SubSeq(s, Min(I), Len(s))
RStrip(s, C) ==
    LET I == {i \in 1..Len(s) : s[i] \notin C}
    IN IF I = {} THEN <<>> ELSE SubSeq(s, 1, Max(I))
Strip(s) == RStrip(LStrip(s, Whitespace), Whitespace)

-----------------------------------------------------------------------------
(* urllib.parse.urlparse, as called at app.py line 49 *)

\* urllib.parse._WHATWG_C0_CONTROL_OR_SPACE, _UNSAFE_URL_BYTES_TO_REMOVE,
\* scheme_chars: the characters of them the model writes.
C0_CONTROL_OR_SPACE == {" ", "\t", "\n", "\r", "\f"}
UNSAFE_URL_BYTES_TO_REMOVE == {"\t", "\r", "\n"}
scheme_chars == Range(UpperLetters) \cup Range(LowerLetters) \cup Range(Digits) \cup {"+", "-", "."}
IsAsciiAlpha(c) == c \in Range(UpperLetters) \cup Range(LowerLetters)
HexDigits == Chars("0123456789ABCDEF")

\* The schemes of urllib.parse.uses_params the model can write.
uses_params == {<<>>, Chars("http"), Chars("https"), Chars("ftp")}

\* A bracketed host that ipaddress accepts: an IPv6 literal.
IsIPv6Literal(h) ==
    /\ HasChar(h, ":")
    /\ \A i \in 1..Len(h) : UpperChar(h[i]) \in Range(HexDigits) \cup {":", "."}

\* _splitnetloc(url, 2): the index of the first of "/?#" at or after index 3,
\* or Len(url) + 1.
NetlocEnd(u) ==
    LET I == {i \in 3..Len(u) : u[i] \in {"/", "?", "#"}}
    IN IF I = {} THEN Len(u) + 1 ELSE Min(I)

\* The value of a singleton set.  In {F(x) : x \in {e}} the expression e is
\* evaluated once and F receives its value.
Only(S) == CHOOSE x \in S : TRUE

\* urlsplit, its last step: the fragment is cut off at the first "#", then
\* the query at the first "?".
SplitQueryFragment(scheme, netloc, u3) ==
    LET h == Find(u3, "#", 1)
        u4 == IF h > 0 THEN Upto(u3, h - 1) ELSE u3
        q == Find(u4, "?", 1)
    IN [ok |-> TRUE, scheme |-> scheme, netloc |-> netloc,
        path |-> IF q > 0 THEN Upto(u4, q - 1) ELSE u4,
        query |-> IF q > 0 THEN From(u4, q + 1) ELSE <<>>,
        fragment |-> IF h > 0 THEN From(u3, h + 1) ELSE <<>>]

\* The ValueError urlsplit raises.
SplitError ==
    [ok |-> FALSE, scheme |-> <<>>, netloc |-> <<>>, path |-> <<>>,
     query |-> <<>>, fragment |-> <<>>]

\* urlsplit, the netloc found: unbalanced brackets, or a bracketed host that
\* is no IP literal, raise.
CheckNetloc(scheme, netloc, u3) ==
    LET open == HasChar(netloc, "[")
        close == HasChar(netloc, "]")
        bracketed == SubSeq(netloc, Find(netloc, "[", 1) + 1,
                            Find(netloc, "]", Find(netloc, "[", 1)) - 1)
    IN IF \/ open /\ ~close
          \/ close /\ ~open
          \/ open /\ close /\ ~IsIPv6Literal(bracketed)
       THEN SplitError
       ELSE SplitQueryFragment(scheme, netloc, u3)

\* urlsplit, after the scheme: a rest that starts with "//" has a netloc.
SplitNetloc(scheme, u2) ==
    IF StartsWith(u2, <<"/", "/">>)
    THEN Only({CheckNetloc(scheme, SubSeq(u2, 3, e - 1), From(u2, e)) : e \in {NetlocEnd(u2)}})
    ELSE SplitQueryFragment(scheme, <<>>, u2)

\* urlsplit, the scheme: the text before the first ":" when it starts with a
\* letter and holds only scheme characters, in lower case.
SplitScheme(u1) ==
    LET i == Find(u1, ":", 1)
    IN IF /\ i > 1
          /\ IsAsciiAlpha(u1[1])
          /\ \A k \in 1..(i - 1) : u1[k] \in scheme_chars
       THEN SplitNetloc(Lower(SubSeq(u1, 1, i - 1)), From(u1, i + 1))
       ELSE SplitNetloc(<<>>, u1)

\* urlsplit: leading C0 control characters and spaces are stripped, tabs and
\* line breaks are removed, then the parts are split off.  [ok |-> FALSE]
\* stands for the ValueError it raises.
urlsplit(url0) ==
    Only({SplitScheme(u1) :
            u1 \in {Remove(LStrip(url0, C0_CONTROL_OR_SPACE), UNSAFE_URL_BYTES_TO_REMOVE)}})

\* _splitparams(url): the index of the ";" that starts the parameters of the
\* last path segment, or 0.
ParamsAt(p) ==
    IF HasChar(p, "/") THEN Find(p, ";", RFind(p, "/")) ELSE Find(p, ";", 1)

SplitParams(s) ==
    LET i == IF s.ok /\ s.scheme \in uses_params /\ HasChar(s.path, ";")
             THEN ParamsAt(s.path) ELSE 0
    IN [ok |-> s.ok, scheme |-> s.scheme, netloc |-> s.netloc,
        path |-> IF i > 0 THEN Upto(s.path, i - 1) ELSE s.path,
        params |-> IF i > 0 THEN From(s.path, i + 1) ELSE <<>>,
        query |-> s.query, fragment |-> s.fragment]

urlparse(url0) == Only({SplitParams(s) : s \in {urlsplit(url0)}})

-----------------------------------------------------------------------------
(* urllib.parse.unquote, as called at app.py line 82 *)

\* The UTF-8 encoding of the characters of the model outside ASCII: those of
\* the namespace tables, the characters re.IGNORECASE folds onto ASCII
\* letters, the ideographic space and the replacement character.
Utf8 ==
    "U+0130" :> <<"C4", "B0">> @@
    "U+0131" :> <<"C4", "B1">> @@
    "U+017F" :> <<"C5", "BF">> @@
    "U+2010" :> <<"E2", "80", "90">> @@
    "U+212A" :> <<"E2", "84", "AA">> @@
    "U+3000" :> <<"E3", "80", "80">> @@
    "U+306E" :> <<"E3", "81", "AE">> @@
    "U+30A1" :> <<"E3", "82", "A1">> @@
    "U+30A4" :> <<"E3", "82", "A4">> @@
    "U+30AB" :> <<"E3", "82", "AB">> @@
    "U+30AF" :> <<"E3", "82", "AF">> @@
    "U+30B4" :> <<"E3", "82", "B4">> @@
    "U+30C3" :> <<"E3", "83", "83">> @@
    "U+30C6" :> <<"E3", "83", "86">> @@
    "U+30C8" :> <<"E3", "83", "88">> @@
    "U+30CE" :> <<"E3", "83", "8E">> @@
    "U+30D5" :> <<"E3", "83", "95">> @@
    "U+30D6" :> <<"E3", "83", "96">> @@
    "U+30EA" :> <<"E3", "83", "AA">> @@
    "U+30EB" :> <<"E3", "83", "AB">> @@
    "U+30ED" :> <<"E3", "83", "AD">> @@
    "U+30FC" :> <<"E3", "83", "BC">> @@
    "U+4F1A" :> <<"E4", "BC", "9A">> @@
    "U+4F1D" :> <<"E4", "BC", "9D">> @@
    "U+4F9D" :> <<"E4", "BE", "9D">> @@
    "U+5225" :> <<"E5", "88", "A5">> @@
    "U+5229" :> <<"E5", "88", "A9">> @@
    "U+524A" :> <<"E5", "89", "8A">> @@
    "U+5E30" :> <<"E5", "B8", "B0">> @@
    "U+5FA9" :> <<"E5", "BE", "A9">> @@
    "U+6295" :> <<"E6", "8A", "95">> @@
    "U+677F" :> <<"E6", "9D", "BF">> @@
    "U+7279" :> <<"E7", "89", "B9">> @@
    "U+7406" :> <<"E7", "90", "86">> @@
    "U+7528" :> <<"E7", "94", "A8">> @@
    "U+7A3F" :> <<"E7", "A8", "BF">> @@
    "U+7BA1" :> <<"E7", "AE", "A1">> @@
    "U+8005" :> <<"E8", "80", "85">> @@
    "U+8A00" :> <<"E8", "A8", "80">> @@
    "U+8A71" :> <<"E8", "A9", "B1">> @@
    "U+9664" :> <<"E9", "99", "A4">> @@
    "U+983C" :> <<"E9", "A0", "BC">> @@
    "U+FFFD" :> <<"EF", "BF", "BD">>

\* Printable ASCII, 0x20 to 0x7E, in order (the double quote and the
\* grave accent by their names).
PrintableAscii ==
    Chars(" !") \o <<"U+0022">> \o Chars("#$%&'()*+,-./0123456789:;<=>?@")
    \o UpperLetters \o Chars("[") \o <<"\\">> \o Chars("]^_") \o <<"U+0060">>
    \o LowerLetters \o Chars("{|}~")

IsHexDigit(c) == UpperChar(c) \in Range(HexDigits)
HexVal(c) == (CHOOSE i \in 1..16 : HexDigits[i] = UpperChar(c)) - 1

\* The character of an ASCII byte.
AsciiChar(v) ==
    IF v >= 32 /\ v <= 126 THEN PrintableAscii[v - 31]
    ELSE IF v = 9 THEN "\t"
    ELSE IF v = 10 THEN "\n"
    ELSE IF v = 12 THEN "\f"
    ELSE IF v = 13 THEN "\r"
    ELSE "U+00" \o HexDigits[(v \div 16) + 1] \o HexDigits[(v % 16) + 1]

\* A byte >= 0x80 that an escape produced, until it is decoded: "x" and its
\* two hex digits.
ByteItem(h1, h2) == "x" \o UpperChar(h1) \o UpperChar(h2)
IsByteItem(it) == Len(it) = 3 /\ SubSeq(it, 1, 1) = "x"
ByteVal(it) == 16 * HexVal(SubSeq(it, 2, 2)) + HexVal(SubSeq(it, 3, 3))
ByteHex(it) == SubSeq(it, 2, 3)

\* unquote_to_bytes: every %XX with two hex digits becomes its byte, every
\* other character stays; ASCII bytes are written as their characters.
RECURSIVE UnquoteToItems(_)
UnquoteToItems(s) ==
    IF s = <<>> THEN <<>>
    ELSE IF s[1] = "%" /\ Len(s) >= 3 /\ IsHexDigit(s[2]) /\ IsHexDigit(s[3])
    THEN LET v == 16 * HexVal(s[2]) + HexVal(s[3])
         IN <<IF v < 128 THEN AsciiChar(v) ELSE ByteItem(s[2], s[3])>>
            \o UnquoteToItems(From(s, 4))
    ELSE <<s[1]>> \o UnquoteToItems(Tail(s))

\* The number of continuation bytes a UTF-8 lead byte announces (0: not a lead).
Announced(v) ==
    IF v >= 194 /\ v <= 223 THEN 1
    ELSE IF v >= 224 /\ v <= 239 THEN 2
    ELSE IF v >= 240 /\ v <= 244 THEN 3
    ELSE 0
IsContinuation(it) == IsByteItem(it) /\ ByteVal(it) >= 128 /\ ByteVal(it) <= 191

\* The continuation bytes that follow items[1], at most n of them.
RECURSIVE Continuations(_, _)
Continuations(items, n) ==
    IF n = 0 \/ Len(items) < 2 \/ ~IsContinuation(items[2]) THEN 0
    ELSE 1 + Continuations(Tail(items), n - 1)

\* The characters of the model whose UTF-8 encoding starts the items.
Decodable(items) ==
    {c \in DOMAIN Utf8 :
        /\ Len(Utf8[c]) <= Len(items)
        /\ \A k \in 1..Len(Utf8[c]) :
              IsByteItem(items[k]) /\ ByteHex(items[k]) = Utf8[c][k]}

\* bytes.decode('utf-8', 'replace'): a well-formed sequence becomes its
\* character, a maximal ill-formed one becomes U+FFFD.
RECURSIVE Utf8Decode(_)
Utf8Decode(items) ==
    IF items = <<>> THEN <<>>
    ELSE IF ~IsByteItem(items[1]) THEN <<items[1]>> \o Utf8Decode(Tail(items))
    ELSE IF Decodable(items) # {}
    THEN LET c == CHOOSE c \in Decodable(items) : TRUE
         IN <<c>> \o Utf8Decode(From(items, Len(Utf8[c]) + 1))
    ELSE LET n == Announced(ByteVal(items[1]))
             k == Continuations(items, n)
         IN IF n > 0 /\ k = n
            THEN <<"U+other">> \o Utf8Decode(From(items, n + 2))
            ELSE <<"U+FFFD">> \o Utf8Decode(From(items, k + 2))

unquote(s) == IF ~HasChar(s, "%") THEN s ELSE Utf8Decode(UnquoteToItems(s))

\* urllib.parse.quote of one character with no safe characters: its UTF-8
\* bytes, each as %XX.
AsciiCode(c) == (CHOOSE i \in 1..95 : PrintableAscii[i] = c) + 31
PercentEncoded(c) ==
    IF c \in Range(PrintableAscii)
    THEN <<"%", HexDigits[(AsciiCode(c) \div 16) + 1], HexDigits[(AsciiCode(c) % 16) + 1]>>
    ELSE IF c = "\t" THEN Chars("%09")
    ELSE IF c \in DOMAIN Utf8
    THEN LET b == Utf8[c]
             RECURSIVE Enc(_)
             Enc(k) == IF k > Len(b) THEN <<>> ELSE <<"%">> \o Chars(b[k]) \o Enc(k + 1)
         IN Enc(1)
    ELSE <<c>>

-----------------------------------------------------------------------------
(* validate_wikipedia_url *)

\* The result pair (is_valid, error_message).
Reject(message) == [is_valid |-> FALSE, error_message |-> Chars(message)]

\* Mutant of AcceptResult: the success return carries a message.
AcceptResultWithText == [is_valid |-> TRUE, error_message |-> Chars("OK")]

\* return True, ""
AcceptResult == [is_valid |-> TRUE, error_message |-> <<>>]

\* The list forbidden_patterns, in its order.
forbidden_patterns == <<
    Chars("^Special:"),
    Chars("^") \o <<"U+7279", "U+5225">> \o Chars(":"),
    Chars("^User:"),
    Chars("^") \o <<"U+5229", "U+7528", "U+8005">> \o Chars(":"),
    Chars("^User_talk:"),
    Chars("^") \o <<"U+5229", "U+7528", "U+8005", "U+2010", "U+4F1A", "U+8A71">> \o Chars(":"),
    Chars("^Wikipedia:"),
    Chars("^") \o <<"U+30CE", "U+30FC", "U+30C8">> \o Chars(":"),
    Chars("^Talk:"),
    Chars("^") \o <<"U+30D5", "U+30A1", "U+30A4", "U+30EB">> \o Chars(":"),
    Chars("^File:"),
    Chars("^Media:"),
    Chars("^") \o <<"U+30AB", "U+30C6", "U+30B4", "U+30EA">> \o Chars(":"),
    Chars("^Category:"),
    Chars("^Template:"),
    Chars("^Help:"),
    Chars("^Portal:"),
    Chars("^Draft:"),
    Chars("^Book:"),
    Chars("^Module:"),
    Chars("^MediaWiki:"),
    Chars("^Project:") >>

\* The character re.IGNORECASE compares: the lower-case letter, and for the
\* characters outside ASCII that the re module folds onto s, k and i, that
\* letter.
CaseFold(c) ==
    IF c = "U+017F" THEN "s"
    ELSE IF c = "U+212A" THEN "k"
    ELSE IF c \in {"U+0130", "U+0131"} THEN "i"
    ELSE LowerChar(c)

\* The literal a pattern "^literal" matches at the start of the text.
Literal(pattern) == IF StartsWith(pattern, <<"^">>) THEN Tail(pattern) ELSE pattern

\* Mutant of re_match: the flag re.IGNORECASE is left out.
re_match_case_sensitive(pattern, string) == StartsWith(string, Literal(pattern))

\* Mutant of re_match: re.search, the pattern without its anchor.
re_search(pattern, string) ==
    \E k \in 1..Len(string) :
        /\ Len(Literal(pattern)) <= Len(string) - k + 1
        /\ \A i \in 1..Len(Literal(pattern)) :
              CaseFold(Literal(pattern)[i]) = CaseFold(string[k + i - 1])

\* re.match(pattern, string, re.IGNORECASE) for the patterns of the list.
re_match(pattern, string) ==
    /\ Len(Literal(pattern)) <= Len(string)
    /\ \A i \in 1..Len(Literal(pattern)) :
          CaseFold(Literal(pattern)[i]) = CaseFold(string[i])

\* pattern.replace('^', '').replace(':', '')
pattern_name(pattern) == Remove(Remove(pattern, {"^"}), {":"})

\* f"Access to {pattern_name} pages is prohibited by Wikipedia's robots.txt"
NamespaceReason(pattern) ==
    Chars("Access to ") \o pattern_name(pattern)
    \o Chars(" pages is prohibited by Wikipedia's robots.txt")

\* unquote(parsed.path[6:])
article_name(parsed) == unquote(From(parsed.path, 7))

\* The for loop over forbidden_patterns: the first pattern that matches, or 0.
FirstForbidden(name) ==
    LET I == {k \in 1..Len(forbidden_patterns) : re_match(forbidden_patterns[k], name)}
    IN IF I = {} THEN 0 ELSE Min(I)

\* The checks on the decoded article name, lines 84 to 118.
CheckArticle(name) ==
    IF name = <<>>
    THEN Reject("Article name is required")
    ELSE Only({IF k # 0
               THEN [is_valid |-> FALSE, error_message |-> NamespaceReason(forbidden_patterns[k])]
               ELSE AcceptResult : k \in {FirstForbidden(name)}})

\* Mutant of CheckParsed: the domain checks come before the scheme check.
CheckParsedDomainFirst(parsed) ==
    IF ~EndsWith(parsed.netloc, Chars(".wikipedia.org"))
    THEN Reject("URL must be from Wikipedia (*.wikipedia.org)")
    ELSE IF StartsWith(parsed.netloc, Chars("m.")) \/ StartsWith(parsed.netloc, Chars("commons."))
    THEN Reject("Mobile and Commons Wikipedia URLs are not supported")
    ELSE IF parsed.scheme # Chars("https")
    THEN Reject("URL must use HTTPS")
    ELSE IF ~StartsWith(parsed.path, Chars("/wiki/"))
    THEN Reject("URL must be a Wikipedia article (/wiki/article_name)")
    ELSE Only({CheckArticle(name) : name \in {article_name(parsed)}})

\* The checks on the parsed URL, lines 53 to 82.
CheckParsed(parsed) ==
    IF parsed.scheme # Chars("https")
    THEN Reject("URL must use HTTPS")
    ELSE IF ~EndsWith(parsed.netloc, Chars(".wikipedia.org"))
    THEN Reject("URL must be from Wikipedia (*.wikipedia.org)")
    ELSE IF StartsWith(parsed.netloc, Chars("m.")) \/ StartsWith(parsed.netloc, Chars("commons."))
    THEN Reject("Mobile and Commons Wikipedia URLs are not supported")
    ELSE IF ~StartsWith(parsed.path, Chars("/wiki/"))
    THEN Reject("URL must be a Wikipedia article (/wiki/article_name)")
    ELSE IF StartsWith(parsed.path, Chars("/w/"))
    THEN Reject("Access to /w/ paths is prohibited by robots.txt")
    ELSE IF StartsWith(parsed.path, Chars("/api/"))
    THEN Reject("Access to /api/ paths is prohibited by robots.txt")
    ELSE IF StartsWith(parsed.path, Chars("/trap/"))
    THEN Reject("Access to /trap/ paths is prohibited by robots.txt")
    ELSE Only({CheckArticle(name) : name \in {article_name(parsed)}})

validate_wikipedia_url(u) ==
    IF u = None \/ u = <<>>
    THEN Reject("URL is required")
    ELSE IF Strip(u) = <<>>
    THEN Reject("URL is required")
    ELSE Only({IF ~parsed.ok THEN Reject("Invalid URL format") ELSE CheckParsed(parsed) :
                 parsed \in {urlparse(Strip(u))}})

-----------------------------------------------------------------------------
(* The URLs the model calls the validator with *)

\* The longest tail of an article name, in pieces.
MaxTail == 2

\* Leading text, scheme, authority and path prefix of a URL as written.
Leads == {<<>>, Chars(" ")}
Schemes == {Chars("https:"), Chars("HTTPS:"), Chars("http:"), <<>>}
Authorities == {Chars("//en.wikipedia.org"), Chars("//m.wikipedia.org"),
                Chars("//commons.wikipedia.org"), Chars("//example.com"),
                Chars("//[en.wikipedia.org"), <<>>}
Prefixes == {Chars("/wiki/"), Chars("/w/"), Chars("/api/"), Chars("/trap/"), Chars("/"), <<>>}

\* How an article name starts: namespace words of the table in several
\* spellings (literal, other case, percent-encoded, with a folded character),
\* words the code's list lacks, and plain words.
Heads == {
    <<>>,
    Chars("Test"),
    Chars("Time"),
    Chars("Special"),
    <<"U+017F">> \o Chars("pecial"),
    Chars("User"),
    Chars("%55ser"),
    Chars("User_talk"),
    Chars("MediaWiki"),
    Chars("WP"),
    <<"U+7279", "U+5225">>,
    Chars("%E7%89%B9%E5%88%A5"),
    <<"U+524A", "U+9664", "U+4F9D", "U+983C">> }

\* The pieces that follow.
TailPieces == {Chars(":"), Chars("%3A"), Chars(" "), Chars("/"), Chars(";"),
               <<"\t">>, Chars("X"), Chars("User:")}

\* What follows the path.
Suffixes == {<<>>, Chars("?action=edit"), Chars("#section")}

RECURSIVE Tails(_)
Tails(n) ==
    IF n = 0 THEN {<<>>}
    ELSE Tails(n - 1) \cup {t \o c : t \in {x \in Tails(n - 1) : TRUE}, c \in TailPieces}

Articles == {h \o t : h \in Heads, t \in Tails(MaxTail)}
ShortArticles == {<<>>, Chars("Test"), Chars("Special:X")}

\* The pieces of a URL: every way of writing the part before the article
\* name with a short article name, and every article name after the
\* canonical https://en.wikipedia.org/wiki/.
Pieces(l, s, a, p, n, x) ==
    [none |-> FALSE, lead |-> l, scheme |-> s, authority |-> a, prefix |-> p,
     article |-> n, suffix |-> x]
NonePieces ==
    [none |-> TRUE, lead |-> <<>>, scheme |-> <<>>, authority |-> <<>>,
     prefix |-> <<>>, article |-> <<>>, suffix |-> <<>>]
Inputs ==
    {NonePieces}
    \cup {Pieces(l, s, a, p, n, x) :
            l \in Leads, s \in Schemes, a \in Authorities, p \in Prefixes,
            n \in ShortArticles, x \in Suffixes}
    \cup {Pieces(<<>>, Chars("https:"), Chars("//en.wikipedia.org"), Chars("/wiki/"), n, x) :
            n \in Articles, x \in Suffixes}

\* The URL string the pieces spell.
Join(i) ==
    IF i.none THEN None
    ELSE i.lead \o i.scheme \o i.authority \o i.prefix \o i.article \o i.suffix

-----------------------------------------------------------------------------
(* Direct calls of validate_wikipedia_url *)

\* Values of the handler's variables while no handler runs.
NoEvent == [httpMethod |-> "<absent>", queryStringParameters |-> [kind |-> "absent", url |-> None]]
NoResult == [success |-> FALSE, error |-> <<>>, message |-> <<>>, pending |-> TRUE]
NoResponse == [statusCode |-> 0]
NoDocument == <<>>

InitValidate ==
    /\ inp \in Inputs
    /\ url = Join(inp)
    /\ vpc = "call"
    /\ accepted = FALSE
    /\ reason = <<>>
    /\ event = NoEvent
    /\ hpc = "idle"
    /\ fetches = 0
    /\ slept = 0
    /\ raised = "none"
    /\ result = NoResult
    /\ response = NoResponse
    /\ http_status = 0
    /\ doc = NoDocument
    /\ spc = "idle"
    /\ cursor = 0
    /\ page_title = <<>>
    /\ toc_items = <<>>
    /\ calls = <<>>
    /\ now = 0

\* is_valid, error_message = validate_wikipedia_url(url)
Validate ==
    /\ vpc = "call"
    /\ hpc = "idle"
    /\ \E r \in {validate_wikipedia_url(url)} :
          /\ accepted' = r.is_valid
          /\ reason' = r.error_message
    /\ vpc' = "returned"
    /\ UNCHANGED <<url, inp, event, hpc, fetches, slept, raised, result, response, http_status>>
    /\ UNCHANGED scrapeVars
    /\ UNCHANGED concurrentVars

NextValidate == Validate

SpecValidate == InitValidate /\ [][NextValidate]_vars

-----------------------------------------------------------------------------
(* Properties of validate_wikipedia_url, checked under SpecValidate *)

\* The argument holds text after trimming, and how urlparse splits it.
HasText == url # None /\ Strip(url) # <<>>
Parsed == urlparse(Strip(url))

HostAllowed(p) ==
    /\ EndsWith(p.netloc, Chars(".wikipedia.org"))
    /\ ~StartsWith(p.netloc, Chars("m."))
    /\ ~StartsWith(p.netloc, Chars("commons."))

\* The URL passes rules 1 to 7: https, an allowed host, a /wiki/ path.
IsWikiUrl(p) ==
    /\ p.ok
    /\ p.scheme = Chars("https")
    /\ HostAllowed(p)
    /\ StartsWith(p.path, Chars("/wiki/"))

\* The text begins with the prefix, letter case ignored.
BeginsWithIgnoringCase(text, prefix) ==
    /\ Len(prefix) <= Len(text)
    /\ [i \in 1..Len(prefix) |-> CaseFold(text[i])] = [i \in 1..Len(prefix) |-> CaseFold(prefix[i])]

\* The rejection reason names a namespace and cites robots.txt.
CitesNamespace(r, name) ==
    /\ Contains(r, name)
    /\ Contains(r, Chars("robots.txt"))

(* C1: the reason is empty exactly when the URL is accepted; a rejection's
   reason is non-empty and neither starts nor ends with white space. *)
C1_ReasonEmptyIffAccepted ==
    vpc = "returned" =>
        /\ (reason = <<>>) <=> accepted
        /\ ~accepted =>
              /\ reason # <<>>
              /\ reason[1] \notin Whitespace
              /\ reason[Len(reason)] \notin Whitespace

\* A whitespace-only argument was rejected with a reason.
C1_Witness ==
    /\ vpc = "returned"
    /\ url # None /\ url # <<>> /\ Strip(url) = <<>>
    /\ ~accepted
    /\ reason = Chars("URL is required")

\* The forbidden-namespace prefixes of the specification's table, section 4.1.
SpecForbiddenPrefixes == {
    Chars("Special:"),
    <<"U+7279", "U+5225">> \o Chars(":"),
    Chars("User:"),
    <<"U+5229", "U+7528", "U+8005">> \o Chars(":"),
    Chars("User_talk:"),
    <<"U+5229", "U+7528", "U+8005", "U+2010", "U+4F1A", "U+8A71">> \o Chars(":"),
    Chars("Wikipedia:"),
    Chars("WP:"),
    <<"U+30CE", "U+30FC", "U+30C8">> \o Chars(":"),
    Chars("Talk:"),
    <<"U+30D5", "U+30A1", "U+30A4", "U+30EB">> \o Chars(":"),
    Chars("File:"),
    Chars("Media:"),
    <<"U+30AB", "U+30C6", "U+30B4", "U+30EA">> \o Chars(":"),
    Chars("Category:"),
    Chars("Template:"),
    Chars("Help:"),
    Chars("Portal:"),
    Chars("Draft:"),
    Chars("Book:"),
    Chars("Module:"),
    Chars("MediaWiki:"),
    Chars("Project:"),
    <<"U+524A", "U+9664", "U+4F9D", "U+983C">>,
    <<"U+524A", "U+9664", "U+306E", "U+5FA9", "U+5E30", "U+4F9D", "U+983C">>,
    <<"U+5FA9", "U+5E30", "U+4F9D", "U+983C">>,
    <<"U+30D6", "U+30ED", "U+30C3", "U+30AF", "U+4F9D", "U+983C">>,
    <<"U+6295", "U+7A3F", "U+30D6", "U+30ED", "U+30C3", "U+30AF", "U+4F9D", "U+983C">>,
    <<"U+7BA1", "U+7406", "U+8005", "U+4F1D", "U+8A00", "U+677F">> }

(* C2: a URL that passes the scheme, host and /wiki/ rules and whose decoded
   article name begins with a prefix of the specification's table (WP: and
   the Japanese administrative shortcuts included) is rejected, and the
   reason names that namespace and cites robots.txt. *)
C2_SpecTableRejected ==
    (vpc = "returned" /\ HasText) =>
        \A p \in {Parsed} :
            IsWikiUrl(p) =>
                \A name \in {unquote(From(p.path, 7))} :
                    \A prefix \in SpecForbiddenPrefixes :
                        StartsWith(name, prefix) =>
                            /\ ~accepted
                            /\ CitesNamespace(reason, Remove(prefix, {":"}))

\* The rule of section 4.1, numbered 3 to 9, that a parsed URL with the
\* decoded article name violates.
RuleViolated(k, p, name) ==
    CASE k = 3 -> p.scheme # Chars("https")
      [] k = 4 -> ~EndsWith(p.netloc, Chars(".wikipedia.org"))
      [] k = 5 -> StartsWith(p.netloc, Chars("m.")) \/ StartsWith(p.netloc, Chars("commons."))
      [] k = 6 -> ~StartsWith(p.path, Chars("/wiki/"))
      [] k = 7 -> \/ StartsWith(p.path, Chars("/w/"))
                  \/ StartsWith(p.path, Chars("/api/"))
                  \/ StartsWith(p.path, Chars("/trap/"))
      [] k = 8 -> name = <<>>
      [] k = 9 -> \E j \in 1..Len(forbidden_patterns) :
                      BeginsWithIgnoringCase(name, Remove(forbidden_patterns[j], {"^"}))

FirstViolatedParsed(p) ==
    IF ~p.ok THEN 2
    ELSE Only({Min({k \in 3..9 : RuleViolated(k, p, name)} \cup {10}) :
                 name \in {unquote(From(p.path, 7))}})

\* The first rule, 1 to 9, the argument violates; 10 when it violates none.
FirstViolated(u) ==
    IF u = None \/ Strip(u) = <<>> THEN 1
    ELSE Only({FirstViolatedParsed(p) : p \in {urlparse(Strip(u))}})

\* The reason that belongs to a rule.
ReasonOfRule(k, r) ==
    CASE k = 1 -> r = Chars("URL is required")
      [] k = 2 -> r = Chars("Invalid URL format")
      [] k = 3 -> Contains(r, Chars("HTTPS"))
      [] k = 4 -> Contains(r, Chars("must be from Wikipedia"))
      [] k = 5 -> Contains(r, Chars("not supported"))
      [] k = 6 -> Contains(r, Chars("(/wiki/article_name)"))
      [] k = 7 -> Contains(r, Chars("paths is prohibited by robots.txt"))
      [] k = 8 -> r = Chars("Article name is required")
      [] k = 9 -> Contains(r, Chars("pages is prohibited")) /\ Contains(r, Chars("robots.txt"))
      [] k = 10 -> r = <<>>

(* C3: the rules are applied in the order 1 to 9 and the returned reason is
   that of the first rule the argument violates; an argument that violates
   none is accepted. *)
C3_FirstFailingRuleWins ==
    vpc = "returned" =>
        \A k \in {FirstViolated(url)} :
            /\ accepted <=> (k = 10)
            /\ ReasonOfRule(k, reason)

\* An http URL on a host outside Wikipedia got the HTTPS reason.
C3_Witness ==
    /\ vpc = "returned"
    /\ HasText
    /\ Parsed.scheme = Chars("http")
    /\ Parsed.netloc = Chars("example.com")
    /\ reason = Chars("URL must use HTTPS")

(* C4: an https URL on an allowed host whose path starts with /w/, /api/ or
   /trap/ is rejected with a reason that cites the robots.txt prohibition. *)
C4_SystemPathCitesRobots ==
    (vpc = "returned" /\ HasText) =>
        \A p \in {Parsed} :
            (/\ p.ok
             /\ p.scheme = Chars("https")
             /\ HostAllowed(p)
             /\ \/ StartsWith(p.path, Chars("/w/"))
                \/ StartsWith(p.path, Chars("/api/"))
                \/ StartsWith(p.path, Chars("/trap/")))
            => (~accepted /\ Contains(reason, Chars("robots.txt")))

\* The result the validator gives for the pieces of an input.
ResultFor(i) == validate_wikipedia_url(Join(i))

\* The result recorded in the state.
Returned == [is_valid |-> accepted, error_message |-> reason]

ToggleCase(c) == IF c \in Range(UpperLetters) THEN LowerChar(c) ELSE UpperChar(c)

\* The article text with the letter case of some characters changed.
CaseVariants(a) ==
    {Upper(a), Lower(a)} \cup
    {[a EXCEPT ![i] = ToggleCase(a[i])] : i \in 1..Len(a)}

(* C5: when the decoded article name starts with a forbidden namespace
   prefix, changing the letter case of characters of the article name
   leaves the result unchanged: rejected, with the same reason. *)
C5_NamespaceCaseInsensitive ==
    (vpc = "returned" /\ ~inp.none /\ FirstViolated(url) = 9) =>
        /\ ~accepted
        /\ \A v \in CaseVariants(inp.article) :
               ResultFor([inp EXCEPT !.article = v]) = Returned

\* special: in lower case was rejected as the Special namespace.
C5_Witness ==
    /\ vpc = "returned"
    /\ ~inp.none
    /\ inp.article # Lower(inp.article)
    /\ StartsWith(unquote(From(urlparse(Strip(Join([inp EXCEPT !.article = Lower(inp.article)]))).path, 7)),
                  Chars("special:"))
    /\ ~accepted
    /\ reason = NamespaceReason(Chars("^Special:"))

\* The article text with the character at position i percent-encoded.
EncodeAt(a, i) == Upto(a, i - 1) \o PercentEncoded(a[i]) \o From(a, i + 1)

(* C6: replacing a character of the article-name part, the path after
   /wiki/, by its percent-encoded form gives the same (accepted, reason)
   as the literal form.  Stated for article text without white space and
   without escapes, so that every replaced character is a literal one that
   trimming leaves in place. *)
C6_PercentEncodingInvariant ==
    (/\ vpc = "returned"
     /\ ~inp.none
     /\ inp.prefix = Chars("/wiki/")
     /\ ~HasChar(inp.article, "%")
     /\ Range(inp.article) \cap Whitespace = {})
    => \A i \in 1..Len(inp.article) :
           ResultFor([inp EXCEPT !.article = EncodeAt(inp.article, i)]) = Returned

(* C7: appending a query string or a fragment to a URL that has neither
   does not change whether the URL is accepted. *)
C7_QueryFragmentIgnored ==
    (vpc = "returned" /\ ~inp.none /\ inp.suffix = <<>>) =>
        \A q \in Suffixes :
            ResultFor([inp EXCEPT !.suffix = q]).is_valid = accepted

\* The decoded name begins, letter case ignored, with a forbidden prefix.
BeginsForbidden(name) ==
    \/ \E j \in 1..Len(forbidden_patterns) :
           BeginsWithIgnoringCase(name, Remove(forbidden_patterns[j], {"^"}))
    \/ \E prefix \in SpecForbiddenPrefixes : BeginsWithIgnoringCase(name, prefix)

(* C8: forbidden prefixes are matched only at the start of the decoded
   article name: an https URL on an allowed host with path /wiki/<name>,
   <name> non-empty and not beginning with a forbidden prefix, is accepted
   with an empty reason, whatever <name> contains later. *)
C8_PrefixOnlyAtStart ==
    (vpc = "returned" /\ HasText) =>
        \A p \in {Parsed} :
            IsWikiUrl(p) =>
                \A name \in {unquote(From(p.path, 7))} :
                    (name # <<>> /\ ~BeginsForbidden(name)) => (accepted /\ reason = <<>>)

\* A name with a colon and a namespace word later in it was accepted.
C8_Witness ==
    /\ vpc = "returned"
    /\ HasText
    /\ IsWikiUrl(Parsed)
    /\ StartsWith(unquote(From(Parsed.path, 7)), Chars("Time:User:"))
    /\ accepted
    /\ reason = <<>>

-----------------------------------------------------------------------------
(* lambda_handler and scrape_wikipedia_toc *)

(* The parsed page.  soup is a sequence of nodes in document order; a node
   is an element (name = its tag name) or a string (name = "#text"), and
   parent is the index of its parent node, 0 for a child of the document. *)
Tag(name, parent, id, class, href) ==
    [name |-> name, parent |-> parent, id |-> id, class |-> class, href |-> href, text |-> <<>>]
NavigableString(parent, text) ==
    [name |-> "#text", parent |-> parent, id |-> None, class |-> <<>>, href |-> None, text |-> text]

\* The elements of a set of indices, in document order.
RECURSIVE Ordered(_)
Ordered(S) == IF S = {} THEN <<>> ELSE <<Min(S)>> \o Ordered(S \ {Min(S)})

\* tag.find_parent(name): the nearest ancestor with that name, 0 when none.
RECURSIVE find_parent(_, _, _)
find_parent(d, i, name) ==
    IF d[i].parent = 0 THEN 0
    ELSE IF d[d[i].parent].name = name THEN d[i].parent
    ELSE find_parent(d, d[i].parent, name)

\* Node i lies below node root; everything lies below the document, 0.
RECURSIVE IsDescendant(_, _, _)
IsDescendant(d, i, root) ==
    \/ root = 0
    \/ d[i].parent = root
    \/ d[i].parent # 0 /\ IsDescendant(d, d[i].parent, root)

\* tag.find_all(names): the descendants with one of the names, in order.
find_all(d, root, names) ==
    Ordered({i \in 1..Len(d) : d[i].name \in names /\ IsDescendant(d, i, root)})

\* tag.find(name, class_=c) and tag.find(name, {'id': v}): the first
\* descendant with that name and class, or that name and id; 0 when none.
find_by_class(d, root, name, c) ==
    LET I == {i \in 1..Len(d) : /\ d[i].name = name
                                 /\ c \in Range(d[i].class)
                                 /\ IsDescendant(d, i, root)}
    IN IF I = {} THEN 0 ELSE Min(I)
find_by_id(d, root, name, v) ==
    LET I == {i \in 1..Len(d) : d[i].name = name /\ d[i].id = v /\ IsDescendant(d, i, root)}
    IN IF I = {} THEN 0 ELSE Min(I)

\* The concatenation of the texts of a sequence of strings, each stripped.
RECURSIVE JoinStripped(_, _)
JoinStripped(d, idx) ==
    IF idx = <<>> THEN <<>> ELSE Strip(d[Head(idx)].text) \o JoinStripped(d, Tail(idx))

\* tag.get_text(strip=True): the strings below the tag, each stripped, joined.
get_text_strip(d, i) == JoinStripped(d, find_all(d, i, {"#text"}))

\* tag.get_text(): the strings below the tag, joined as they are.
RECURSIVE JoinTexts(_, _)
JoinTexts(d, idx) ==
    IF idx = <<>> THEN <<>> ELSE d[Head(idx)].text \o JoinTexts(d, Tail(idx))
get_text(d, i) == JoinTexts(d, find_all(d, i, {"#text"}))

\* The value of a decimal digit, and of a text of decimal digits.
DigitValue(c) == (CHOOSE k \in 1..10 : Digits[k] = c) - 1
RECURSIVE DecimalValue(_)
DecimalValue(s) ==
    IF s = <<>> THEN 0 ELSE 10 * DecimalValue(SubSeq(s, 1, Len(s) - 1)) + DigitValue(s[Len(s)])

\* int(s), for texts of ASCII characters without underscores or spaces:
\* an optional sign and decimal digits; ok = FALSE stands for ValueError.
int(s) ==
    LET digits == IF s # <<>> /\ s[1] \in {"+", "-"} THEN Tail(s) ELSE s
    IN IF digits = <<>> \/ \E k \in 1..Len(digits) : digits[k] \notin Range(Digits)
       THEN [ok |-> FALSE, value |-> 0]
       ELSE [ok |-> TRUE,
             value |-> IF s[1] = "-" THEN 0 - DecimalValue(digits) ELSE DecimalValue(digits)]

\* class_name.split('-')[1], for a class_name that contains a "-".
SplitField1(class_name) ==
    LET first == Find(class_name, "-", 1)
        next == Find(class_name, "-", first + 1)
    IN IF next = 0 THEN From(class_name, first + 1)
       ELSE SubSeq(class_name, first + 1, next - 1)

\* get_heading_level_from_tag(tag)
get_heading_level_from_tag(d, i) ==
    IF d[i].name \in {"h1", "h2", "h3", "h4", "h5", "h6"}
    THEN DigitValue(Chars(d[i].name)[2])
    ELSE 1

\* The loop over class_names: the level of the first class toclevel-<int>,
\* none when no class has that shape.
RECURSIVE LevelFromClasses(_)
LevelFromClasses(class_names) ==
    IF class_names = <<>> THEN [found |-> FALSE, level |-> 0]
    ELSE IF /\ StartsWith(Head(class_names), Chars("toclevel-"))
            /\ int(SplitField1(Head(class_names))).ok
    THEN [found |-> TRUE, level |-> int(SplitField1(Head(class_names))).value]
    ELSE LevelFromClasses(Tail(class_names))

\* The number of ul ancestors of a node: the while loop over find_parent('ul').
RECURSIVE ul_count(_, _)
ul_count(d, i) ==
    IF find_parent(d, i, "ul") = 0 THEN 0 ELSE 1 + ul_count(d, find_parent(d, i, "ul"))

\* The for loop "for i in range(5)": current is the node reached, steps the
\* iterations left; the level found at the first ul, 1 when the document is
\* reached or the five steps are used up.
RECURSIVE LevelFromNesting(_, _, _)
\* Mutant of LevelFromNesting: the walk upward has no limit of five steps.
RECURSIVE LevelFromNestingUnbounded(_, _, _)
LevelFromNestingUnbounded(d, current, steps) ==
    IF d[current].parent = 0 THEN 1
    ELSE IF d[d[current].parent].name = "ul" THEN ul_count(d, d[current].parent) + 1
    ELSE LevelFromNestingUnbounded(d, d[current].parent, steps)

LevelFromNesting(d, current, steps) ==
    IF steps = 0 THEN 1
    ELSE IF d[current].parent = 0 THEN 1
    ELSE IF d[d[current].parent].name = "ul" THEN ul_count(d, d[current].parent) + 1
    ELSE LevelFromNesting(d, d[current].parent, steps - 1)

\* Mutant of get_heading_level_from_toc_item: the classes of the li are not
\* looked at, the level is always that of the nesting.
LevelFromNestingOnly(d, link) == LevelFromNesting(d, link, 5)

\* get_heading_level_from_toc_item(link)
get_heading_level_from_toc_item(d, link) ==
    LET parent_li == find_parent(d, link, "li")
        by_class == IF parent_li = 0 THEN [found |-> FALSE, level |-> 0]
                    ELSE LevelFromClasses(d[parent_li].class)
    IN IF by_class.found THEN by_class.level ELSE LevelFromNesting(d, link, 5)

\* The characters \s and \d of re match, among those of the model.
IsSpace(c) == c \in Whitespace
IsDigit(c) == c \in Range(Digits)

\* The length of the longest run of digits, of white space, that starts at
\* position i of s: the greedy \d+ and \s*.
RECURSIVE DigitRun(_, _)
DigitRun(s, i) == IF i > Len(s) \/ ~IsDigit(s[i]) THEN 0 ELSE 1 + DigitRun(s, i + 1)
RECURSIVE SpaceRun(_, _)
SpaceRun(s, i) == IF i > Len(s) \/ ~IsSpace(s[i]) THEN 0 ELSE 1 + SpaceRun(s, i + 1)

\* The end of the greedy match of (\.\d+)* that starts after position i.
RECURSIVE DottedEnd(_, _)
DottedEnd(s, i) ==
    IF i + 2 <= Len(s) /\ s[i + 1] = "." /\ IsDigit(s[i + 2])
    THEN DottedEnd(s, i + 1 + DigitRun(s, i + 2))
    ELSE i

\* re.sub(r'^\d+(\.\d+)*\s*', '', text)
StripOrdinal(text) ==
    IF text = <<>> \/ ~IsDigit(text[1]) THEN text
    ELSE LET numbered == DottedEnd(text, DigitRun(text, 1))
         IN From(text, numbered + SpaceRun(text, numbered + 1) + 1)

\* re.sub(r'\s+', ' ', text)
RECURSIVE CollapseWhitespace(_)
CollapseWhitespace(text) ==
    IF text = <<>> THEN <<>>
    ELSE IF IsSpace(text[1])
    THEN <<" ">> \o CollapseWhitespace(From(text, SpaceRun(text, 1) + 1))
    ELSE <<text[1]>> \o CollapseWhitespace(Tail(text))

\* The characters of the model that \w does not match and that lie outside
\* the kana and kanji ranges of the anchor pattern.
IsWordChar(c) ==
    \/ c \in Range(UpperLetters) \cup Range(LowerLetters) \cup Range(Digits) \cup {"_"}
    \/ /\ Len(c) > 1
       /\ c \notin {"\t", "\n", "\r", "\f"}
       /\ c \notin {"U+3000", "U+2010", "U+FFFD", "U+0022", "U+0060", "U+other"}

\* re.sub(r'[^\w\u3040-\u309F\u30A0-\u30FF\u4E00-\u9FAF]', '_', text)
GeneratedAnchor(text) == [k \in 1..Len(text) |-> IF IsWordChar(text[k]) THEN text[k] ELSE "_"]

\* The titles the two paths leave out: 目次, contents, table of contents.
TocSelfTitles == {<<"U+76EE", "U+6B21">>, Chars("contents"), Chars("table of contents")}
HeadingSelfTitles == {<<"U+76EE", "U+6B21">>, Chars("contents")}

\* The edit marker [編集].
EditMarker == <<"[", "U+7DE8", "U+96C6", "]">>

\* link.get('href', '')
href_of(d, link) == IF d[link].href = None THEN <<>> ELSE d[link].href

\* The text of a TOC link: that of its span.toctext when it has one, its
\* own otherwise, the ordinal removed, white space collapsed and trimmed.
LinkText(d, link) ==
    LET text_elem == find_by_class(d, link, "span", Chars("toctext"))
        text == IF text_elem # 0 THEN get_text_strip(d, text_elem) ELSE get_text_strip(d, link)
    IN Strip(CollapseWhitespace(StripOrdinal(text)))

\* The dict a TOC link contributes.
LinkItem(d, link) ==
    [level |-> get_heading_level_from_toc_item(d, link),
     title |-> LinkText(d, link),
     anchor |-> Tail(href_of(d, link)),
     href |-> href_of(d, link)]

\* One iteration of the loop over toc_links: whether the link is skipped.
LinkSkipped(d, link) ==
    \/ ~StartsWith(href_of(d, link), <<"#">>)
    \/ Lower(LinkText(d, link)) \in TocSelfTitles
    \/ LinkText(d, link) = <<>>

\* edit_link.decompose() for every span.mw-editsection below the heading:
\* the spans and everything below them leave the tree.
Decomposed(d, heading) ==
    LET gone == {i \in 1..Len(d) :
                    \E e \in 1..Len(d) :
                        /\ d[e].name = "span"
                        /\ Chars("mw-editsection") \in Range(d[e].class)
                        /\ IsDescendant(d, e, heading)
                        /\ (i = e \/ IsDescendant(d, i, e))}
    IN [i \in 1..Len(d) |->
           IF i \in gone THEN [d[i] EXCEPT !.name = "#decomposed", !.text = <<>>, !.class = <<>>]
           ELSE d[i]]

\* The text of a heading, after the edit links are gone.
HeadingText(d, heading) == CollapseWhitespace(get_text_strip(d, heading))

\* Mutant of HeadingAnchor: the anchor is always generated from the text.
HeadingAnchorFromText(d, heading) == GeneratedAnchor(HeadingText(d, heading))

\* heading.get('id', ''), and the anchor generated from the text without it.
HeadingAnchor(d, heading) ==
    IF d[heading].id # None /\ d[heading].id # <<>> THEN d[heading].id
    ELSE GeneratedAnchor(HeadingText(d, heading))

\* The dict a heading contributes.
HeadingItem(d, heading) ==
    [level |-> get_heading_level_from_tag(d, heading),
     title |-> HeadingText(d, heading),
     anchor |-> HeadingAnchor(d, heading),
     href |-> <<"#">> \o HeadingAnchor(d, heading)]

\* One iteration of the loop over headings: whether the heading is skipped.
HeadingSkipped(d, heading) ==
    \/ HeadingText(d, heading) = <<>>
    \/ StartsWith(HeadingText(d, heading), EditMarker)
    \/ Lower(HeadingText(d, heading)) \in HeadingSelfTitles

(* The pages of the model, built from descriptions of their parts. *)

\* The fragment frag appended below node p of d: a parent of 0 inside the
\* fragment stands for p, any other for a position of the fragment.
Attach(d, p, frag) ==
    d \o [k \in 1..Len(frag) |->
            [frag[k] EXCEPT !.parent = IF frag[k].parent = 0 THEN p ELSE frag[k].parent + Len(d)]]

\* depth nested lists <ul><li>... (or <ol><li>...); the innermost li carries
\* the classes.
ListChain(list, depth, classes) ==
    [k \in 1..(2 * depth) |->
        IF k % 2 = 1 THEN Tag(list, k - 1, None, <<>>, None)
        ELSE Tag("li", k - 1, None, IF k = 2 * depth THEN classes ELSE <<>>, None)]

\* <a href=...>[<span class="tocnumber">number</span> ]text</a>, the text
\* inside <span class="toctext"> when spanned.
LinkFragment(l) ==
    LET a == <<Tag("a", 0, None, <<>>, l.href)>>
        numbered == IF l.number = <<>> THEN a
                    ELSE a \o <<Tag("span", 1, None, <<Chars("tocnumber")>>, None),
                                NavigableString(2, l.number),
                                NavigableString(1, <<" ">>)>>
    IN IF l.spanned
       THEN numbered \o <<Tag("span", 1, None, <<Chars("toctext")>>, None),
                          NavigableString(Len(numbered) + 1, l.text)>>
       ELSE numbered \o <<NavigableString(1, l.text)>>

\* wraps nested elements <b><b>... between the li and the link.
WrapChain(wraps) == [k \in 1..wraps |-> Tag("b", k - 1, None, <<>>, None)]

\* A TOC link inside its wrappers inside its lists.
LinkInLists(l) ==
    Attach(Attach(ListChain(l.list, l.depth, l.classes), 2 * l.depth, WrapChain(l.wraps)),
           2 * l.depth + l.wraps, LinkFragment(l))

\* <hN id=...>text[<span class="mw-editsection">[edit]</span>]</hN>
HeadingFragment(h) ==
    <<Tag(h.name, 0, h.id, <<>>, None), NavigableString(1, h.text)>>
    \o (IF h.edit
        THEN <<Tag("span", 1, None, <<Chars("mw-editsection")>>, None),
               Tag("span", 3, None, <<Chars("mw-editsection-bracket")>>, None),
               NavigableString(4, Chars("[")),
               Tag("a", 3, None, <<>>, Chars("/w/index.php?action=edit")),
               NavigableString(6, Chars("edit")),
               Tag("span", 3, None, <<Chars("mw-editsection-bracket")>>, None),
               NavigableString(8, Chars("]"))>>
        ELSE <<>>)

\* <h1 class="firstHeading">, <h1 id="firstHeading">, or no such h1.
TitleFragment(t) ==
    IF t.by = "class"
    THEN <<Tag("h1", 0, None, <<Chars("firstHeading")>>, None), NavigableString(1, t.text)>>
    ELSE IF t.by = "id"
    THEN <<Tag("h1", 0, Chars("firstHeading"), <<>>, None), NavigableString(1, t.text)>>
    ELSE <<>>

RECURSIVE AttachLinks(_, _, _)
AttachLinks(d, p, links) ==
    IF links = <<>> THEN d
    ELSE AttachLinks(Attach(d, p, LinkInLists(Head(links))), p, Tail(links))

RECURSIVE AttachHeadings(_, _)
AttachHeadings(d, headings) ==
    IF headings = <<>> THEN d
    ELSE AttachHeadings(Attach(d, 0, HeadingFragment(Head(headings))), Tail(headings))

\* The page: the title, <div id="toc"> with its links when it has one, and
\* the headings.
BuildDocument(s) ==
    LET titled == TitleFragment(s.title)
        with_toc == IF s.toc
                    THEN AttachLinks(titled \o <<Tag("div", 0, Chars("toc"), <<>>, None)>>,
                                     Len(titled) + 1, s.links)
                    ELSE titled
    IN AttachHeadings(with_toc, s.headings)

\* The deepest nesting of lists around a TOC link.
MaxDepth == 7

\* The class lists of the li around a TOC link.
LiClasses == {
    <<>>,
    <<Chars("toclevel-1")>>,
    <<Chars("toclevel-2")>>,
    <<Chars("toclevel-0")>>,
    <<Chars("toclevel-7")>>,
    <<Chars("toclevel-")>>,
    <<Chars("tocsection-1"), Chars("toclevel-x"), Chars("toclevel-3")>> }

Hrefs == {Chars("#History"), Chars("##History"), Chars("#"), Chars("/wiki/Other"), None}

Numbers == {<<>>, Chars("1.2")}

LinkTexts == {
    Chars("History"),
    Chars("1.2 Early years"),
    Chars("1 2 Title"),
    Chars("3D printing"),
    Chars("2023"),
    Chars("Contents"),
    <<"U+76EE", "U+6B21">>,
    <<" ", "See", " ", "\n", "also", "U+3000">>,
    <<" ">> }

Link(depth, classes, href, number, spanned, text) ==
    [depth |-> depth, classes |-> classes, href |-> href,
     number |-> number, spanned |-> spanned, text |-> text, wraps |-> 0, list |-> "ul"]

\* The link inside wraps more elements, and inside lists of another kind.
Wrapped(l, wraps) == [l EXCEPT !.wraps = wraps]
Listed(l, list) == [l EXCEPT !.list = list]

\* The most elements between a li and its link.
MaxWraps == 4

\* One link in every nesting and with every class list, one link at
\* level 1 with every href, number and text, and links without a class
\* toclevel-N behind wrappers and in ordered lists.
LinkSpecs ==
    {Wrapped(Link(depth, classes, Chars("#History"), <<>>, TRUE, Chars("History")), wraps) :
        depth \in 0..2, classes \in {<<>>, <<Chars("toclevel-x")>>}, wraps \in 1..MaxWraps}
    \cup {Listed(Link(depth, <<>>, Chars("#History"), <<>>, TRUE, Chars("History")), "ol") :
            depth \in 1..2}
    \cup {Link(0, <<>>, Chars("#History"), <<>>, TRUE, Chars("History"))}
    \cup {Link(depth, classes, Chars("#History"), <<>>, TRUE, Chars("History")) :
            depth \in 1..MaxDepth, classes \in LiClasses}
    \cup {Link(1, <<Chars("toclevel-1")>>, href, number, spanned, text) :
            href \in Hrefs, number \in Numbers, spanned \in BOOLEAN, text \in LinkTexts}

ShortLinkSpecs == {
    Link(1, <<Chars("toclevel-1")>>, Chars("#History"), Chars("1"), TRUE, Chars("History")),
    Link(2, <<Chars("toclevel-2")>>, Chars("#Early_years"), Chars("1.1"), TRUE, Chars("Early years")),
    Link(1, <<Chars("toclevel-1")>>, Chars("/wiki/Other"), <<>>, FALSE, Chars("Other")),
    Link(1, <<Chars("toclevel-1")>>, Chars("#Contents"), <<>>, TRUE, Chars("Contents")) }

Heading(name, id, text, edit) == [name |-> name, id |-> id, text |-> text, edit |-> edit]

HeadingNames == {"h1", "h2", "h3", "h6"}
HeadingIds == {None, <<>>, Chars("History"), Chars("#frag")}
HeadingTexts == {
    Chars("History"),
    Chars("1 History"),
    Chars("A&B c"),
    Chars("Contents"),
    <<"U+76EE", "U+6B21">>,
    <<"[", "U+7DE8", "U+96C6", "]", " ", "x">>,
    Chars("[edit] x"),
    <<" ", "See", " ", "\n", "also", "U+3000">>,
    <<" ">> }

HeadingSpecs ==
    {Heading(name, id, text, edit) :
        name \in HeadingNames, id \in HeadingIds, text \in HeadingTexts, edit \in BOOLEAN}

ShortHeadingSpecs == {
    Heading("h2", Chars("History"), Chars("History"), TRUE),
    Heading("h3", None, Chars("Early years"), FALSE),
    Heading("h2", None, Chars("Contents"), FALSE) }

Titles == {
    [by |-> "none", text |-> <<>>],
    [by |-> "class", text |-> <<" ">> \o Chars("Test page") \o <<"\n">>],
    [by |-> "id", text |-> Chars("Test")] }

Page(title, toc, links, headings) ==
    [title |-> title, toc |-> toc, links |-> links, headings |-> headings]

TestTitle == [by |-> "class", text |-> Chars("Test")]

\* The descriptions of the pages: pages without TOC and headings, a TOC
\* with one link, with two links, headings only, and a TOC whose links are
\* all left out in front of headings.
PageSpecs ==
    {Page(t, toc, <<>>, <<>>) : t \in Titles, toc \in BOOLEAN}
    \cup {Page(TestTitle, TRUE, <<l>>, <<>>) : l \in LinkSpecs}
    \cup {Page(TestTitle, TRUE, <<l1, l2>>, hs) :
            l1 \in ShortLinkSpecs, l2 \in ShortLinkSpecs,
            hs \in {<<>>, <<Heading("h2", Chars("History"), Chars("History"), TRUE)>>}}
    \cup {Page(TestTitle, FALSE, <<>>, <<h>>) : h \in HeadingSpecs}
    \cup {Page(TestTitle, toc, <<>>, <<h1, h2>>) :
            toc \in BOOLEAN, h1 \in ShortHeadingSpecs, h2 \in ShortHeadingSpecs}
    \cup {Page(TestTitle, FALSE, <<>>, <<h1, h2, h3>>) :
            h1 \in ShortHeadingSpecs, h2 \in ShortHeadingSpecs, h3 \in ShortHeadingSpecs}

Documents == {BuildDocument(s) : s \in PageSpecs}

MIN_REQUEST_INTERVAL == 1

\* A Python dict of response headers: header name -> value.
JsonHeaders ==
    ("Content-Type" :> "application/json") @@ ("Access-Control-Allow-Origin" :> "*")
JsonUtf8Headers ==
    ("Content-Type" :> "application/json; charset=utf-8") @@ ("Access-Control-Allow-Origin" :> "*")
CachedJsonUtf8Headers ==
    JsonUtf8Headers @@ ("Cache-Control" :> "public, max-age=300")

\* event.get('httpMethod', 'GET')
http_method(ev) == IF ev.httpMethod = "<absent>" THEN "GET" ELSE ev.httpMethod

\* (event.get('queryStringParameters') or {}).get('url')
query_url(ev) ==
    IF ev.queryStringParameters.kind = "dict" THEN ev.queryStringParameters.url ELSE None

\* Mutant of Truthy: the test is "url is not None", so "" counts as present.
IsNotNone(u) == u # None

\* Python truth value of the url parameter: None and "" are false.
Truthy(u) == u # None /\ u # <<>>

\* The 405 response.
MethodNotAllowed ==
    [statusCode |-> 405,
     headers |-> JsonHeaders,
     body |-> [success |-> FALSE,
               error |-> Chars("Method not allowed"),
               message |-> Chars("Only GET method is supported")]]

\* The 400 response for a missing url parameter.
UrlRequired ==
    [statusCode |-> 400,
     headers |-> JsonUtf8Headers,
     body |-> [success |-> FALSE,
               error |-> Chars("URL parameter is required"),
               message |-> Chars("Please provide a Wikipedia URL using ?url=<wikipedia_url>"),
               example |-> Chars("?url=https://ja.wikipedia.org/wiki/Amazon_Web_Services")]]

\* Mutant of InvalidUrl: the body carries the trimmed url and a fixed text.
InvalidUrlGeneric(error_message, u) ==
    [statusCode |-> 400,
     headers |-> JsonUtf8Headers,
     body |-> [success |-> FALSE,
               error |-> Chars("Invalid Wikipedia URL"),
               message |-> Chars("The URL is not allowed"),
               provided_url |-> Strip(u)]]

\* The 400 response for a url the validator rejects.
InvalidUrl(error_message, u) ==
    [statusCode |-> 400,
     headers |-> JsonUtf8Headers,
     body |-> [success |-> FALSE,
               error |-> Chars("Invalid Wikipedia URL"),
               message |-> error_message,
               provided_url |-> u]]

\* Mutant of InternalServerError: the exception text is withheld.
InternalServerErrorNoText(message) ==
    [statusCode |-> 500,
     headers |-> JsonUtf8Headers,
     body |-> [success |-> FALSE,
               error |-> Chars("Internal server error"),
               message |-> Chars("An unexpected error occurred")]]

\* The 500 response of the handler's own except clause.
InternalServerError(message) ==
    [statusCode |-> 500,
     headers |-> JsonUtf8Headers,
     body |-> [success |-> FALSE,
               error |-> Chars("Internal server error"),
               message |-> message]]

\* Mutant of EarlyResponse: the handler goes on to scrape without asking the
\* validator.
EarlyResponseUnvalidated(ev, valid) ==
    IF http_method(ev) # "GET" THEN MethodNotAllowed
    ELSE IF ~Truthy(query_url(ev)) THEN UrlRequired
    ELSE NoResponse

\* Mutant of EarlyResponse: the url checks come before the method check.
EarlyResponseUrlFirst(ev, valid) ==
    IF ~Truthy(query_url(ev)) THEN UrlRequired
    ELSE IF http_method(ev) # "GET" THEN MethodNotAllowed
    ELSE IF ~valid.is_valid THEN InvalidUrl(valid.error_message, query_url(ev))
    ELSE NoResponse

\* The handler before the call of scrape_wikipedia_toc: the response it
\* returns early, NoResponse when it goes on to scrape.  valid is the pair
\* validate_wikipedia_url returned for the url.
EarlyResponse(ev, valid) ==
    IF http_method(ev) # "GET" THEN MethodNotAllowed
    ELSE IF ~Truthy(query_url(ev)) THEN UrlRequired
    ELSE IF ~valid.is_valid THEN InvalidUrl(valid.error_message, query_url(ev))
    ELSE NoResponse

\* Mutant of Success: total_items counts the page title with the entries.
SuccessCountingTitle(u, title, toc) ==
    [success |-> TRUE, url |-> u, title |-> title, toc |-> toc, total_items |-> Len(toc) + 1]

Success(u, title, toc) ==
    [success |-> TRUE, url |-> u, title |-> title, toc |-> toc, total_items |-> Len(toc)]
TimeoutFailure ==
    [success |-> FALSE,
     error |-> Chars("Request timeout"),
     message |-> Chars("Wikipedia page took too long to respond")]
FetchFailure(message) ==
    [success |-> FALSE, error |-> Chars("Failed to fetch Wikipedia page"), message |-> message]
ParseFailure(message) ==
    [success |-> FALSE, error |-> Chars("Failed to parse Wikipedia content"), message |-> message]

\* Mutant of StatusCode: the timeout is looked for in the message.
StatusCodeFromMessage(r) ==
    IF r.success THEN 200
    ELSE IF Contains(Lower(r.message), Chars("timeout")) THEN 504
    ELSE 500

\* status_code: 200 if result["success"] else 500, and 504 when the error
\* of a failure contains "timeout", letter case ignored.
StatusCode(r) ==
    IF r.success THEN 200
    ELSE IF Contains(Lower(r.error), Chars("timeout")) THEN 504
    ELSE 500

\* The response that carries the scrape result.
ScrapeResponse(r) ==
    [statusCode |-> StatusCode(r), headers |-> CachedJsonUtf8Headers, body |-> r]

\* A url parameter that is no str (a number in a directly invoked event).
NotAString == <<"<int>">>

\* The text of the exception the handler's code raises before the scrape,
\* <<>> when it raises none: .get on a queryStringParameters that is no
\* dict, .strip() in the validator on a url that is no str.
HandlerException(ev) ==
    IF http_method(ev) # "GET" THEN <<>>
    ELSE IF ev.queryStringParameters.kind = "malformed"
    THEN Chars("'str' object has no attribute 'get'")
    ELSE IF query_url(ev) = NotAString
    THEN Chars("'int' object has no attribute 'strip'")
    ELSE <<>>

\* The inbound events: the method and the query parameters.
Methods == {"<absent>", "GET", "POST", "get"}

HandlerUrls == {
    <<>>,
    Chars("   "),
    Chars("not-a-url"),
    Chars("http://en.wikipedia.org/wiki/Test"),
    Chars("https://example.com/wiki/Test"),
    Chars("https://m.wikipedia.org/wiki/Test"),
    Chars("https://en.wikipedia.org/w/Test"),
    Chars("https://en.wikipedia.org/wiki/"),
    Chars("https://[en.wikipedia.org/wiki/Test"),
    Chars("https://en.wikipedia.org/wiki/Special:X"),
    Chars("https://en.wikipedia.org/wiki/Test"),
    Chars("https://ja.wikipedia.org/wiki/Time:X"),
    NotAString }

QueryParameters ==
    {[kind |-> k, url |-> None] : k \in {"absent", "null", "malformed", "dict"}}
    \cup {[kind |-> "dict", url |-> u] : u \in HandlerUrls}

Events == [httpMethod : Methods, queryStringParameters : QueryParameters]

\* What the network and the page can do to one scrape.
GetOutcomes == {"response", "Timeout", "ConnectionError"}
ConnectionMessages == {
    Chars("Max retries exceeded with url (connect timeout=15)"),
    Chars("Connection aborted.") }
\* The status codes of a response: a page, a 3xx that requests does not
\* follow (no redirect target), a client error and a server error.
HttpStatuses == {200, 304, 404, 503}
HTTPErrorMessage(status) ==
    IF status = 404 THEN Chars("404 Client Error: Not Found for url")
    ELSE Chars("503 Server Error: Service Unavailable for url")
ParseMessages == {Chars("Couldn't find a tree builder with the features you requested: lxml")}

\* The pages the handler's fetch can bring back.
HandlerPageSpecs == {
    Page([by |-> "none", text |-> <<>>], FALSE, <<>>, <<>>),
    Page(TestTitle, TRUE,
         <<Link(1, <<Chars("toclevel-1")>>, Chars("#History"), Chars("1"), TRUE, Chars("History")),
           Link(2, <<Chars("toclevel-2")>>, Chars("#Early_years"), Chars("1.1"), TRUE,
                Chars("Early years"))>>,
         <<Heading("h2", Chars("History"), Chars("History"), TRUE)>>),
    Page(TestTitle, TRUE,
         <<Link(1, <<Chars("toclevel-1")>>, Chars("#Contents"), <<>>, TRUE, Chars("Contents"))>>,
         <<Heading("h2", Chars("History"), Chars("History"), TRUE)>>),
    Page(TestTitle, FALSE, <<>>,
         <<Heading("h2", Chars("History"), Chars("History"), TRUE),
           Heading("h3", None, Chars("Early years"), FALSE)>>) }

HandlerDocuments == {BuildDocument(s) : s \in HandlerPageSpecs}

Init ==
    /\ event \in Events
    /\ hpc = "start"
    /\ url = None
    /\ inp = NonePieces
    /\ vpc = "call"
    /\ accepted = FALSE
    /\ reason = <<>>
    /\ fetches = 0
    /\ slept = 0
    /\ raised = "none"
    /\ result = NoResult
    /\ response = NoResponse
    /\ http_status = 0
    /\ doc = NoDocument
    /\ spc = "idle"
    /\ cursor = 0
    /\ page_title = <<>>
    /\ toc_items = <<>>
    /\ calls = <<>>
    /\ now = 0

\* lambda_handler from its entry to the call of scrape_wikipedia_toc: the
\* method check, the url parameter, the validator, and the early returns.
HandleRequest ==
    /\ hpc = "start"
    /\ \E exc \in {HandlerException(event)}, u \in {query_url(event)} :
          IF exc # <<>>
          THEN /\ response' = InternalServerError(exc)
               /\ raised' = "AttributeError"
               /\ hpc' = "done"
               /\ url' = u
               /\ UNCHANGED <<vpc, accepted, reason>>
          ELSE IF http_method(event) = "GET" /\ Truthy(u)
          THEN \E valid \in {validate_wikipedia_url(u)} :
                  /\ url' = u
                  /\ vpc' = "returned"
                  /\ accepted' = valid.is_valid
                  /\ reason' = valid.error_message
                  /\ \E early \in {EarlyResponse(event, valid)} :
                        /\ response' = early
                        /\ hpc' = IF early = NoResponse THEN "sleep" ELSE "done"
                  /\ UNCHANGED raised
          ELSE /\ response' = EarlyResponse(event, Reject("URL is required"))
               /\ hpc' = "done"
               /\ url' = IF http_method(event) = "GET" THEN u ELSE url
               /\ UNCHANGED <<vpc, accepted, reason, raised>>
    /\ UNCHANGED <<inp, event, fetches, slept, result, http_status>>
    /\ UNCHANGED scrapeVars
    /\ UNCHANGED concurrentVars

\* Mutant of Sleep: the GET is issued without the wait.
SleepSkipped ==
    /\ hpc = "sleep"
    /\ hpc' = "get"
    /\ UNCHANGED <<url, inp, vpc, accepted, reason, event, fetches, raised, result, response>>
    /\ UNCHANGED <<slept, http_status>>
    /\ UNCHANGED scrapeVars
    /\ UNCHANGED concurrentVars

\* time.sleep(MIN_REQUEST_INTERVAL)
Sleep ==
    /\ hpc = "sleep"
    /\ slept' = slept + MIN_REQUEST_INTERVAL
    /\ hpc' = "get"
    /\ UNCHANGED <<url, inp, vpc, accepted, reason, event, fetches, raised, result, response>>
    /\ UNCHANGED http_status
    /\ UNCHANGED scrapeVars
    /\ UNCHANGED concurrentVars

\* requests.get(url, headers=HEADERS, timeout=15)
Get ==
    /\ hpc = "get"
    /\ fetches' = fetches + 1
    /\ \E outcome \in GetOutcomes :
          \/ /\ outcome = "response"
             /\ \E status \in HttpStatuses : http_status' = status
             /\ hpc' = "raise_for_status"
             /\ UNCHANGED <<raised, result>>
          \/ /\ outcome = "Timeout"
             /\ raised' = "Timeout"
             /\ result' = TimeoutFailure
             /\ hpc' = "respond"
             /\ UNCHANGED http_status
          \/ /\ outcome = "ConnectionError"
             /\ raised' = "ConnectionError"
             /\ \E message \in ConnectionMessages : result' = FetchFailure(message)
             /\ hpc' = "respond"
             /\ UNCHANGED http_status
    /\ UNCHANGED <<url, inp, vpc, accepted, reason, event, slept, response>>
    /\ UNCHANGED scrapeVars
    /\ UNCHANGED concurrentVars

\* response.raise_for_status()
RaiseForStatus ==
    /\ hpc = "raise_for_status"
    /\ IF http_status < 400
       THEN /\ hpc' = "parse"
            /\ UNCHANGED <<raised, result>>
       ELSE /\ raised' = "HTTPError"
            /\ result' = FetchFailure(HTTPErrorMessage(http_status))
            /\ hpc' = "respond"
    /\ UNCHANGED <<url, inp, vpc, accepted, reason, event, fetches, slept, response, http_status>>
    /\ UNCHANGED scrapeVars
    /\ UNCHANGED concurrentVars

\* soup = BeautifulSoup(response.content, 'lxml'): the parsed page, or the
\* exception of the constructor, caught by the except Exception clause.
Parse ==
    /\ hpc = "parse"
    /\ \/ \E d \in HandlerDocuments :
             /\ doc' = d
             /\ spc' = "title"
             /\ hpc' = "extract"
             /\ UNCHANGED <<raised, result>>
       \/ \E message \in ParseMessages :
             /\ raised' = "Exception"
             /\ result' = ParseFailure(message)
             /\ hpc' = "respond"
             /\ UNCHANGED <<doc, spc>>
    /\ UNCHANGED <<url, inp, vpc, accepted, reason, event, fetches, slept, response, http_status>>
    /\ UNCHANGED <<cursor, page_title, toc_items>>
    /\ UNCHANGED concurrentVars

handlerVars ==
    <<url, inp, vpc, accepted, reason, event, hpc, fetches, slept, raised, result, response,
      http_status>>

\* toc_elem.find_all('a') and soup.find_all(['h2', 'h3', 'h4', 'h5', 'h6'])
toc_elem(d) == find_by_id(d, 0, "div", Chars("toc"))
toc_links(d) == IF toc_elem(d) = 0 THEN <<>> ELSE find_all(d, toc_elem(d), {"a"})
headings(d) == find_all(d, 0, {"h2", "h3", "h4", "h5", "h6"})

\* The title element and the title of the page.
title_elem(d) ==
    IF find_by_class(d, 0, "h1", Chars("firstHeading")) # 0
    THEN find_by_class(d, 0, "h1", Chars("firstHeading"))
    ELSE find_by_id(d, 0, "h1", Chars("firstHeading"))
title_of(d) == IF title_elem(d) # 0 THEN Strip(get_text(d, title_elem(d))) ELSE Chars("Unknown")

\* The page title, toc_items = [], and the search for div#toc: the loop
\* over its links comes next when it is there, the headings otherwise.
FindTitleAndToc ==
    /\ spc = "title"
    /\ page_title' = title_of(doc)
    /\ toc_items' = <<>>
    /\ cursor' = 1
    /\ spc' = IF toc_elem(doc) # 0 THEN "links" ELSE "headings"
    /\ UNCHANGED doc
    /\ UNCHANGED handlerVars
    /\ UNCHANGED concurrentVars

\* One iteration of "for link in toc_links".
TocLink ==
    /\ spc = "links"
    /\ cursor <= Len(toc_links(doc))
    /\ \E link \in {toc_links(doc)[cursor]} :
          toc_items' = IF LinkSkipped(doc, link) THEN toc_items
                       ELSE Append(toc_items, LinkItem(doc, link))
    /\ cursor' = cursor + 1
    /\ UNCHANGED <<doc, spc, page_title>>
    /\ UNCHANGED handlerVars
    /\ UNCHANGED concurrentVars

\* The end of the loop over toc_links and "if not toc_items".
EndOfLinks ==
    /\ spc = "links"
    /\ cursor > Len(toc_links(doc))
    /\ spc' = IF toc_items = <<>> THEN "headings" ELSE "return"
    /\ cursor' = 1
    /\ UNCHANGED <<doc, page_title, toc_items>>
    /\ UNCHANGED handlerVars
    /\ UNCHANGED concurrentVars

\* One iteration of "for heading in headings": the edit links leave the
\* tree, then the heading is appended or left out.
HeadingStep ==
    /\ spc = "headings"
    /\ cursor <= Len(headings(doc))
    /\ \E heading \in {headings(doc)[cursor]} :
          \E soup \in {Decomposed(doc, heading)} :
             /\ doc' = soup
             /\ toc_items' = IF HeadingSkipped(soup, heading) THEN toc_items
                              ELSE Append(toc_items, HeadingItem(soup, heading))
    /\ cursor' = cursor + 1
    /\ UNCHANGED <<spc, page_title>>
    /\ UNCHANGED handlerVars
    /\ UNCHANGED concurrentVars

\* The return of the success dict.
Return ==
    /\ \/ spc = "return"
       \/ spc = "headings" /\ cursor > Len(headings(doc))
    /\ result' = Success(url, page_title, toc_items)
    /\ spc' = "returned"
    /\ hpc' = "respond"
    /\ UNCHANGED <<url, inp, vpc, accepted, reason, event, fetches, slept, raised, response>>
    /\ UNCHANGED <<http_status, doc, cursor, page_title, toc_items>>
    /\ UNCHANGED concurrentVars

\* lambda_handler after scrape_wikipedia_toc returned: the status code and
\* the response.
Respond ==
    /\ hpc = "respond"
    /\ response' = ScrapeResponse(result)
    /\ hpc' = "done"
    /\ UNCHANGED <<url, inp, vpc, accepted, reason, event, fetches, slept, raised, result>>
    /\ UNCHANGED http_status
    /\ UNCHANGED scrapeVars
    /\ UNCHANGED concurrentVars

Next ==
    \/ HandleRequest
    \/ Sleep
    \/ Get
    \/ RaiseForStatus
    \/ Parse
    \/ FindTitleAndToc
    \/ TocLink
    \/ EndOfLinks
    \/ HeadingStep
    \/ Return
    \/ Respond

Spec == Init /\ [][Next]_vars

\* The entries the loop over toc_links appends, and those the loop over the
\* headings appends, each heading losing its edit links as its turn comes.
RECURSIVE LinkItems(_, _)
LinkItems(d, links) ==
    IF links = <<>> THEN <<>>
    ELSE (IF LinkSkipped(d, Head(links)) THEN <<>> ELSE <<LinkItem(d, Head(links))>>)
         \o LinkItems(d, Tail(links))
RECURSIVE HeadingItems(_, _)
HeadingItems(d, hs) ==
    IF hs = <<>> THEN <<>>
    ELSE LET soup == Decomposed(d, Head(hs))
         IN (IF HeadingSkipped(soup, Head(hs)) THEN <<>> ELSE <<HeadingItem(soup, Head(hs))>>)
            \o HeadingItems(soup, Tail(hs))

\* toc_items at the return: the entries of the links, and those of the
\* headings when the links gave none.
ExtractedToc(d) ==
    IF LinkItems(d, toc_links(d)) # <<>> THEN LinkItems(d, toc_links(d))
    ELSE HeadingItems(d, headings(d))

\* The success dict of a page, as the steps from FindTitleAndToc to Return
\* build it.
ScrapedPage(u, d) == Success(u, title_of(d), ExtractedToc(d))

\* scrape_wikipedia_toc from the parsed page on, for every page of the
\* model: the state a GET request for ScrapeUrl is in when the page arrived.
ScrapeUrl == Chars("https://en.wikipedia.org/wiki/Test")
ScrapeEvent == [httpMethod |-> "GET", queryStringParameters |-> [kind |-> "dict", url |-> ScrapeUrl]]

InitScrape ==
    /\ event = ScrapeEvent
    /\ hpc = "extract"
    /\ url = ScrapeUrl
    /\ inp = NonePieces
    /\ vpc = "returned"
    /\ accepted = TRUE
    /\ reason = <<>>
    /\ fetches = 1
    /\ slept = MIN_REQUEST_INTERVAL
    /\ raised = "none"
    /\ result = NoResult
    /\ response = NoResponse
    /\ http_status = 200
    /\ doc \in Documents
    /\ spc = "title"
    /\ cursor = 0
    /\ page_title = <<>>
    /\ toc_items = <<>>
    /\ calls = <<>>
    /\ now = 0

NextScrape ==
    \/ FindTitleAndToc
    \/ TocLink
    \/ EndOfLinks
    \/ HeadingStep
    \/ Return
    \/ Respond

SpecScrape == InitScrape /\ [][NextScrape]_vars

-----------------------------------------------------------------------------
(* Properties of lambda_handler, checked under Spec *)

\* The url parameter of the event is a str the validator rejects.
RejectedUrl(u) ==
    Truthy(u) /\ u # NotAString /\ ~validate_wikipedia_url(u).is_valid

\* The scrape has begun: the throttle wait or anything after it.
ScrapeBegun ==
    \/ hpc \in {"get", "raise_for_status", "parse", "extract", "respond"}
    \/ slept > 0
    \/ fetches > 0
    \/ result # NoResult

(* C9, as the handler behaves: the scrape (the throttle wait, the HTTP GET)
   begins only when the method is GET, the url parameter is present and the
   validator accepted it; and a GET request whose url parameter is absent,
   empty, or a string the validator rejects is answered with status 400
   with no fetch having occurred. *)
C9_NoFetchUnlessAccepted ==
    \A u \in {query_url(event)} :
        /\ (hpc = "sleep" \/ ScrapeBegun) =>
              /\ http_method(event) = "GET"
              /\ Truthy(u) /\ u # NotAString
              /\ url = u
              /\ validate_wikipedia_url(u).is_valid
              /\ vpc = "returned" /\ accepted
        /\ (/\ hpc = "done"
            /\ http_method(event) = "GET"
            /\ event.queryStringParameters.kind # "malformed"
            /\ (~Truthy(u) \/ RejectedUrl(u)))
           => (response.statusCode = 400 /\ fetches = 0 /\ slept = 0)

\* A GET for a page of the Special namespace was answered 400, unfetched.
C9_Witness ==
    /\ hpc = "done"
    /\ http_method(event) = "GET"
    /\ query_url(event) = Chars("https://en.wikipedia.org/wiki/Special:X")
    /\ response.statusCode = 400
    /\ response.body.message = NamespaceReason(Chars("^Special:"))
    /\ fetches = 0

(* C9, as stated: in every execution, whatever the method, a missing,
   malformed or rejected url parameter is answered with status 400 without
   a fetch.  Stated for events whose query parameters are well formed and
   whose url, when present, is a string.  A request with a method other
   than GET is answered 405 before the url is looked at. *)
C9_AlwaysAnswered400 ==
    (hpc = "done" /\ event.queryStringParameters.kind # "malformed") =>
        \A u \in {query_url(event)} :
            (~Truthy(u) \/ RejectedUrl(u)) =>
                (response.statusCode = 400 /\ fetches = 0)

(* C10: a Success result gives status 200 with body {success: true, url,
   title, toc, total_items}; a Failure result gives status 504 exactly when
   the failure is the timeout of the request and 500 for every other
   failure, with body {success: false, error, message}. *)
C10_StatusFromScrapeResult ==
    (hpc = "done" /\ result # NoResult) =>
        /\ response.body = result
        /\ result.success =>
              /\ response.statusCode = 200
              /\ raised = "none"
              /\ DOMAIN response.body = {"success", "url", "title", "toc", "total_items"}
        /\ ~result.success =>
              /\ response.statusCode = (IF raised = "Timeout" THEN 504 ELSE 500)
              /\ raised # "none"
              /\ DOMAIN response.body = {"success", "error", "message"}

\* A connection error whose text mentions a timeout was answered 500.
C10_Witness ==
    /\ hpc = "done"
    /\ raised = "ConnectionError"
    /\ Contains(result.message, Chars("timeout"))
    /\ response.statusCode = 500
    /\ response.body = result

(* C11: when the validator rejects the url parameter of a GET request, the
   handler returns status 400 with body success = false, error = "Invalid
   Wikipedia URL", message = the validator's reason and provided_url = the
   url as it was supplied. *)
C11_RejectionResponse ==
    (hpc = "done" /\ http_method(event) = "GET") =>
        \A u \in {query_url(event)} :
            RejectedUrl(u) =>
                /\ response.statusCode = 400
                /\ DOMAIN response.body = {"success", "error", "message", "provided_url"}
                /\ response.body.success = FALSE
                /\ response.body.error = Chars("Invalid Wikipedia URL")
                /\ response.body.message = validate_wikipedia_url(u).error_message
                /\ response.body.message = reason
                /\ response.body.provided_url = u

\* A url of three spaces was rejected and returned as it was supplied.
C11_Witness ==
    /\ hpc = "done"
    /\ http_method(event) = "GET"
    /\ query_url(event) = Chars("   ")
    /\ response.statusCode = 400
    /\ response.body.error = Chars("Invalid Wikipedia URL")
    /\ response.body.message = Chars("URL is required")
    /\ response.body.provided_url = Chars("   ")

(* C12: a GET request whose queryStringParameters is absent or null, or
   whose url entry is missing or empty, is answered with status 400 and
   body success = false, error = "URL parameter is required", a message,
   and example = "?url=https://ja.wikipedia.org/wiki/Amazon_Web_Services". *)
C12_MissingUrlResponse ==
    (/\ hpc = "done"
     /\ http_method(event) = "GET"
     /\ \/ event.queryStringParameters.kind \in {"absent", "null"}
        \/ /\ event.queryStringParameters.kind = "dict"
           /\ event.queryStringParameters.url \in {None, <<>>})
    => /\ response.statusCode = 400
       /\ DOMAIN response.body = {"success", "error", "message", "example"}
       /\ response.body.success = FALSE
       /\ response.body.error = Chars("URL parameter is required")
       /\ response.body.message # <<>>
       /\ response.body.example = Chars("?url=https://ja.wikipedia.org/wiki/Amazon_Web_Services")
       /\ vpc = "call" /\ fetches = 0

\* A GET whose url entry is the empty string got the missing-url answer.
C12_Witness ==
    /\ hpc = "done"
    /\ http_method(event) = "GET"
    /\ event.queryStringParameters = [kind |-> "dict", url |-> <<>>]
    /\ response.statusCode = 400
    /\ response.body.error = Chars("URL parameter is required")

(* C13: an event whose method is anything other than GET is answered with
   status 405 and body success = false, error = "Method not allowed",
   whether or not a url parameter is present or valid; the validator is not
   called and nothing is fetched. *)
C13_MethodCheckFirst ==
    http_method(event) # "GET" =>
        /\ vpc = "call"
        /\ fetches = 0 /\ slept = 0 /\ result = NoResult
        /\ hpc \in {"start", "done"}
        /\ hpc = "done" =>
              /\ response.statusCode = 405
              /\ DOMAIN response.body = {"success", "error", "message"}
              /\ response.body.success = FALSE
              /\ response.body.error = Chars("Method not allowed")

\* A POST without a url parameter was answered 405.
C13_Witness ==
    /\ hpc = "done"
    /\ event.httpMethod = "POST"
    /\ event.queryStringParameters = [kind |-> "absent", url |-> None]
    /\ response.statusCode = 405
    /\ response.body.error = Chars("Method not allowed")

(* C14: every response the handler returns, on every path, carries
   Content-Type = "application/json; charset=utf-8" and
   Access-Control-Allow-Origin = "*", and every 200 response also carries a
   public Cache-Control directive. *)
C14_HeadersOnEveryResponse ==
    hpc = "done" =>
        /\ "Content-Type" \in DOMAIN response.headers
        /\ response.headers["Content-Type"] = "application/json; charset=utf-8"
        /\ "Access-Control-Allow-Origin" \in DOMAIN response.headers
        /\ response.headers["Access-Control-Allow-Origin"] = "*"
        /\ response.statusCode = 200 =>
              /\ "Cache-Control" \in DOMAIN response.headers
              /\ Contains(Chars(response.headers["Cache-Control"]), Chars("public"))

\* The classes of the exceptions raised inside scrape_wikipedia_toc.
ScraperExceptions == {"Timeout", "ConnectionError", "HTTPError", "Exception"}

(* C15, as the handler behaves: every finished execution has returned a
   response; an exception raised in the handler's own code or in the
   validator (a queryStringParameters that is no dict, a url that is no
   string) gives status 500 with body success = false, error = "Internal
   server error" and message = the exception text; an exception raised
   inside scrape_wikipedia_toc is caught there and reaches the handler as a
   failure result, which is the body of a 500 or 504 response. *)
C15_ExceptionsBecomeResponses ==
    /\ hpc = "done" => response.statusCode \in {200, 400, 405, 500, 504}
    /\ (/\ hpc = "done"
        /\ http_method(event) = "GET"
        /\ \/ event.queryStringParameters.kind = "malformed"
           \/ query_url(event) = NotAString)
       => /\ raised = "AttributeError"
          /\ response.statusCode = 500
          /\ DOMAIN response.body = {"success", "error", "message"}
          /\ response.body.success = FALSE
          /\ response.body.error = Chars("Internal server error")
          /\ response.body.message =
                (IF event.queryStringParameters.kind = "malformed"
                 THEN Chars("'str' object has no attribute 'get'")
                 ELSE Chars("'int' object has no attribute 'strip'"))
    /\ (hpc = "done" /\ raised \in ScraperExceptions) =>
          /\ response.statusCode \in {500, 504}
          /\ response.body = result
          /\ response.body.success = FALSE
          /\ response.body.error # Chars("Internal server error")
    /\ raised = "AttributeError" => hpc = "done"

\* A url that is a number ended in the 500 of the handler's except clause.
C15_Witness ==
    /\ hpc = "done"
    /\ query_url(event) = NotAString
    /\ raised = "AttributeError"
    /\ response.statusCode = 500
    /\ response.body.error = Chars("Internal server error")
    /\ response.body.message = Chars("'int' object has no attribute 'strip'")

(* C15, as stated: any exception raised anywhere in the chain, a scraper
   error included, results in status 500 with error = "Internal server
   error". *)
C15_EveryExceptionInternalError ==
    (hpc = "done" /\ raised # "none") =>
        /\ response.statusCode = 500
        /\ response.body.error = Chars("Internal server error")

(* C16: for a GET event whose url parameter is a valid Wikipedia article
   URL and whose scrape succeeds, the response has status 200 and a body in
   which success is true, url is the supplied url, and the field validation
   equals "passed". *)
C16_SuccessBodyValidationPassed ==
    (/\ hpc = "done"
     /\ http_method(event) = "GET"
     /\ accepted
     /\ result # NoResult
     /\ result.success)
    => /\ response.statusCode = 200
       /\ response.body.success = TRUE
       /\ response.body.url = query_url(event)
       /\ "validation" \in DOMAIN response.body
       /\ response.body.validation = Chars("passed")

(* C17: a GET request whose url is in a forbidden namespace is answered
   with status 400, success = false, and an error field that contains,
   letter case ignored, one of "robots.txt", "prohibited" or "forbidden". *)
C17_ErrorFieldCitesProhibition ==
    (/\ hpc = "done"
     /\ http_method(event) = "GET"
     /\ Truthy(query_url(event)) /\ query_url(event) # NotAString
     /\ FirstViolated(query_url(event)) = 9)
    => /\ response.statusCode = 400
       /\ response.body.success = FALSE
       /\ \E keyword \in {Chars("robots.txt"), Chars("prohibited"), Chars("forbidden")} :
             Contains(Lower(response.body.error), keyword)


\* The entries scrape_wikipedia_toc returned: the toc of its success dict.
Emitted == IF result # NoResult /\ result.success THEN result.toc ELSE <<>>

\* The path the entries came from: the loop over the links of div#toc
\* appended them, or the loop over the headings did.
FromTocPath == spc \in {"links", "return"}
FromHeadingPath == spc = "headings"

(* C18: every entry scrape_wikipedia_toc returns, from the links of the
   TOC container or from the headings, for any class toclevel-N and any
   depth of list nesting, has a level between 1 and 6. *)
C18_LevelBetween1And6 ==
    \A k \in 1..Len(Emitted) : Emitted[k].level \in 1..6

\* What holds of the levels: a heading gives the digit of its tag, 2 to 6;
\* a TOC link gives the N of the first class toclevel-N of its li whatever
\* N is, and otherwise the number of ul around it, or 1 past five steps.
C18_LevelsAsComputed ==
    /\ FromHeadingPath => \A k \in 1..Len(toc_items) : toc_items[k].level \in 2..6
    /\ FromTocPath => \A k \in 1..Len(toc_items) : toc_items[k].level \in 0..MaxDepth


(* C19: every entry scrape_wikipedia_toc returns, on both paths, has
   href = "#" + anchor, and an anchor that does not begin with "#". *)
C19_HrefIsHashAnchorWithoutHash ==
    \A k \in 1..Len(Emitted) :
        /\ Emitted[k].href = <<"#">> \o Emitted[k].anchor
        /\ ~StartsWith(Emitted[k].anchor, <<"#">>)

\* What holds of the anchors: href is "#" and the anchor on both paths.
C19_HrefIsHashAnchor ==
    \A k \in 1..Len(toc_items) : toc_items[k].href = <<"#">> \o toc_items[k].anchor


\* A text begins with ordinal numbering: digits(.digits)* and a space.
BeginsWithOrdinal(text) ==
    /\ DigitRun(text, 1) > 0
    /\ DottedEnd(text, DigitRun(text, 1)) < Len(text)
    /\ IsSpace(text[DottedEnd(text, DigitRun(text, 1)) + 1])

\* A title is clean: not empty, no white space at its ends, no two white
\* space characters in a row.
CleanTitle(text) ==
    /\ text # <<>>
    /\ ~IsSpace(text[1])
    /\ ~IsSpace(text[Len(text)])
    /\ \A k \in 1..(Len(text) - 1) : ~(IsSpace(text[k]) /\ IsSpace(text[k + 1]))

(* C20: every entry scrape_wikipedia_toc returns, on both paths, has a
   title that is not empty, has no leading or trailing white space and no
   run of two or more white space characters, and does not begin with
   ordinal numbering (digits(.digits)* followed by a space). *)
C20_TitleCleanWithoutOrdinal ==
    \A k \in 1..Len(Emitted) :
        /\ CleanTitle(Emitted[k].title)
        /\ ~BeginsWithOrdinal(Emitted[k].title)

\* What holds of the titles: they are clean on both paths.
C20_TitleClean ==
    \A k \in 1..Len(toc_items) : CleanTitle(toc_items[k].title)


\* The page has neither a TOC container nor a heading.
BarePage == toc_elem(doc) = 0 /\ headings(doc) = <<>>

\* scrape_wikipedia_toc has returned: the handler holds its result.
ScrapeReturned == hpc \in {"respond", "done"} /\ slept > 0

(* C21: scrape_wikipedia_toc always returns exactly one variant and never
   raises: a Success with url, title, toc and total_items = len(toc), or a
   Failure with error and message and no toc; every exception raised inside
   it is answered by a Failure, none reaches the handler; a page with
   neither a TOC container nor a heading gives success = true, toc = [] and
   total_items = 0. *)
C21_ExactlyOneVariant ==
    ScrapeReturned =>
        /\ result # NoResult
        /\ result.success =>
              /\ DOMAIN result = {"success", "url", "title", "toc", "total_items"}
              /\ raised = "none"
              /\ result.url = url
              /\ result.toc = toc_items
              /\ result.total_items = Len(result.toc)
              /\ BarePage => result.toc = <<>> /\ result.total_items = 0
        /\ ~result.success =>
              /\ DOMAIN result = {"success", "error", "message"}
              /\ raised \in ScraperExceptions
        /\ hpc = "done" => response.body = result

\* The scrape of a page with neither a TOC container nor a heading returned
\* a Success without entries.
C21_Witness ==
    /\ ScrapeReturned
    /\ BarePage
    /\ result.success
    /\ result.toc = <<>>
    /\ result.total_items = 0


\* The error categories of a Failure.
TimeoutCategory == Chars("Request timeout")
FetchCategory == Chars("Failed to fetch Wikipedia page")
ParseCategory == Chars("Failed to parse Wikipedia content")

\* The typed result of each failure, the statuses that count as failed
\* being those of the set Failed.
FailuresTyped(Failed) ==
    ScrapeReturned =>
        /\ raised = "Timeout" =>
              ~result.success /\ result.error = TimeoutCategory
        /\ raised = "ConnectionError" =>
              /\ ~result.success
              /\ result.error = FetchCategory
              /\ result.message \in ConnectionMessages
        /\ http_status \in Failed =>
              /\ ~result.success
              /\ result.error = FetchCategory
              /\ result.message = HTTPErrorMessage(http_status)
              /\ raised = "HTTPError"
        /\ raised = "Exception" =>
              /\ ~result.success
              /\ result.error = ParseCategory
              /\ result.message \in ParseMessages
        /\ (~result.success /\ result.error = ParseCategory) =>
              /\ raised = "Exception"
              /\ fetches = 1
              /\ http_status \in HttpStatuses \ Failed

(* C22: scrape_wikipedia_toc maps failures to typed results: a timeout of
   the request gives the timeout category; any other transport failure or
   a status outside 2xx gives "Failed to fetch Wikipedia page" with the
   diagnostic as message; an exception while parsing gives "Failed to parse
   Wikipedia content", reported only after a successful fetch. *)
C22_FailuresTyped == FailuresTyped({s \in HttpStatuses : s \notin 200..299})

\* What holds of the failures: the same with the statuses 400 and above,
\* those for which raise_for_status raises.
C22_FailuresTypedFrom400 == FailuresTyped({s \in HttpStatuses : s >= 400})


(* C23: within one call of scrape_wikipedia_toc the steps come in the
   order throttle wait (the full minimum interval), HTTP GET, parsing; at
   most one GET is issued, and after a timeout or another fetch failure the
   call returns a Failure with no further request and no parsing. *)
C23_WaitThenGetThenParse ==
    /\ fetches <= 1
    /\ slept <= MIN_REQUEST_INTERVAL
    /\ fetches > 0 => slept = MIN_REQUEST_INTERVAL
    /\ hpc \in {"get", "raise_for_status", "parse", "extract"} => slept = MIN_REQUEST_INTERVAL
    /\ spc # "idle" => fetches = 1 /\ http_status # 0
    /\ raised \in {"Timeout", "ConnectionError", "HTTPError"} =>
          /\ fetches = 1
          /\ spc = "idle"
          /\ doc = NoDocument
          /\ hpc \in {"respond", "done"}
          /\ ~result.success

\* A request timed out: one GET after the full wait, a Failure, no parsing.
C23_Witness ==
    /\ hpc = "done"
    /\ raised = "Timeout"
    /\ fetches = 1
    /\ slept = MIN_REQUEST_INTERVAL
    /\ spc = "idle"
    /\ result = TimeoutFailure


(* Concurrent invocations of lambda_handler.  Each has its own event, its
   own locals and its own answer from the network; HEADERS and
   MIN_REQUEST_INTERVAL are the only module-level values and no statement
   assigns to them.  The steps of one invocation between its GET and its
   return touch its locals only and are taken as one step. *)

\* The number of invocations and the last second of the clock.
NumCalls == 2
MaxTime == 1

\* lambda_handler up to the call of scrape_wikipedia_toc: the response it
\* returns before scraping, NoResponse when it goes on to scrape.
HandlerEntry(ev) ==
    IF HandlerException(ev) # <<>> THEN InternalServerError(HandlerException(ev))
    ELSE IF http_method(ev) = "GET" /\ Truthy(query_url(ev))
    THEN EarlyResponse(ev, validate_wikipedia_url(query_url(ev)))
    ELSE EarlyResponse(ev, Reject("URL is required"))

\* What the network answers to the GET of an invocation.
Answer(outcome, status, d) == [outcome |-> outcome, status |-> status, doc |-> d]
PageAnswer ==
    Answer("response", 200,
           BuildDocument(Page(TestTitle, TRUE,
               <<Link(1, <<Chars("toclevel-1")>>, Chars("#History"), Chars("1"), TRUE,
                      Chars("History"))>>,
               <<>>)))
Answers == {Answer("Timeout", 0, NoDocument), Answer("response", 404, NoDocument), PageAnswer}

\* The events of the concurrent invocations.
ConcurrentEvents == {
    ScrapeEvent,
    [httpMethod |-> "POST", queryStringParameters |-> [kind |-> "dict", url |-> ScrapeUrl]],
    [httpMethod |-> "GET", queryStringParameters |-> [kind |-> "absent", url |-> None]],
    [httpMethod |-> "GET",
     queryStringParameters |->
         [kind |-> "dict", url |-> Chars("https://en.wikipedia.org/wiki/Special:X")]] }

\* An invocation before its first step; the answer matters to the
\* invocations that scrape only.
Call(ev, answer) ==
    [event |-> ev, answer |-> answer, pc |-> "start", asleep_at |-> -1, got_at |-> -1,
     fetches |-> 0, result |-> NoResult, response |-> NoResponse]
Calls ==
    {Call(ev, answer) : ev \in {ScrapeEvent}, answer \in Answers}
    \cup {Call(ev, PageAnswer) : ev \in ConcurrentEvents \ {ScrapeEvent}}

\* Mutant of SleepUntil: one wait is shared, counted from the first
\* invocation that began to wait.
SleepUntilShared(c) ==
    Min({calls[j].asleep_at : j \in {k \in DOMAIN calls : calls[k].asleep_at >= 0}})
    + MIN_REQUEST_INTERVAL

\* The time at which time.sleep(MIN_REQUEST_INTERVAL) of an invocation
\* returns at the earliest.
SleepUntil(c) == c.asleep_at + MIN_REQUEST_INTERVAL

\* The dict scrape_wikipedia_toc returns for an answer of the network.
ScrapeResult(u, answer) ==
    IF answer.outcome = "Timeout" THEN TimeoutFailure
    ELSE IF answer.status >= 400 THEN FetchFailure(HTTPErrorMessage(answer.status))
    ELSE ScrapedPage(u, answer.doc)

InitConcurrent ==
    /\ calls \in [1..NumCalls -> Calls]
    /\ now = 0
    /\ event = NoEvent
    /\ hpc = "idle"
    /\ url = None
    /\ inp = NonePieces
    /\ vpc = "call"
    /\ accepted = FALSE
    /\ reason = <<>>
    /\ fetches = 0
    /\ slept = 0
    /\ raised = "none"
    /\ result = NoResult
    /\ response = NoResponse
    /\ http_status = 0
    /\ doc = NoDocument
    /\ spc = "idle"
    /\ cursor = 0
    /\ page_title = <<>>
    /\ toc_items = <<>>

\* An invocation enters lambda_handler: it answers at once, or it enters
\* scrape_wikipedia_toc and begins its wait.
CallEnter(i) ==
    /\ calls[i].pc = "start"
    /\ \E entry \in {HandlerEntry(calls[i].event)} :
          calls' = IF entry # NoResponse
                   THEN [calls EXCEPT ![i].response = entry, ![i].pc = "done"]
                   ELSE [calls EXCEPT ![i].asleep_at = now, ![i].pc = "sleep"]
    /\ UNCHANGED now

\* time.sleep returns.
CallWake(i) ==
    /\ calls[i].pc = "sleep"
    /\ now >= SleepUntil(calls[i])
    /\ calls' = [calls EXCEPT ![i].pc = "get"]
    /\ UNCHANGED now

\* requests.get and the rest of scrape_wikipedia_toc, to its return.
CallGet(i) ==
    /\ calls[i].pc = "get"
    /\ \E r \in {ScrapeResult(query_url(calls[i].event), calls[i].answer)} :
          calls' = [calls EXCEPT ![i].got_at = now,
                                 ![i].fetches = @ + 1,
                                 ![i].result = r,
                                 ![i].pc = "respond"]
    /\ UNCHANGED now

\* The response that carries the scrape result.
CallRespond(i) ==
    /\ calls[i].pc = "respond"
    /\ calls' = [calls EXCEPT ![i].response = ScrapeResponse(calls[i].result), ![i].pc = "done"]
    /\ UNCHANGED now

\* A second passes.
Tick ==
    /\ now < MaxTime
    /\ now' = now + 1
    /\ UNCHANGED calls

NextConcurrent ==
    \/ \E i \in 1..NumCalls :
          /\ \/ CallEnter(i)
             \/ CallWake(i)
             \/ CallGet(i)
             \/ CallRespond(i)
          /\ UNCHANGED handlerVars
          /\ UNCHANGED scrapeVars
    \/ /\ Tick
       /\ UNCHANGED handlerVars
       /\ UNCHANGED scrapeVars

SpecConcurrent == InitConcurrent /\ [][NextConcurrent]_vars

\* The response of an invocation that runs alone.
ResponseAlone(ev, answer) ==
    IF HandlerEntry(ev) # NoResponse THEN HandlerEntry(ev)
    ELSE ScrapeResponse(ScrapeResult(query_url(ev), answer))

(* C24: concurrent requests are independent: under every interleaving the
   response of each is the one it gets when it runs alone; each scrape
   waits its own full minimum interval before its GET and issues one GET;
   the calls are not serialized, so calls started together may all issue
   their GET one interval later. *)
C24_CallsIndependent ==
    \A i \in DOMAIN calls :
        /\ calls[i].pc = "done" =>
              /\ calls[i].response = ResponseAlone(calls[i].event, calls[i].answer)
              /\ calls[i].fetches = (IF HandlerEntry(calls[i].event) # NoResponse THEN 0 ELSE 1)
        /\ calls[i].fetches <= 1
        /\ calls[i].fetches = 1 =>
              /\ calls[i].asleep_at >= 0
              /\ calls[i].got_at >= calls[i].asleep_at + MIN_REQUEST_INTERVAL

\* Every invocation scraped, all began their wait at time 0 and all issued
\* their GET at time MIN_REQUEST_INTERVAL.
C24_Witness ==
    /\ calls # <<>>
    /\ \A i \in DOMAIN calls :
          /\ calls[i].pc = "done"
          /\ calls[i].asleep_at = 0
          /\ calls[i].got_at = MIN_REQUEST_INTERVAL
          /\ calls[i].response.statusCode \in {200, 500, 504}


\* An anchor of the TOC container qualifies: its href starts with "#" and
\* its cleaned text is neither empty nor a title of the TOC itself.
Qualifies(d, link) ==
    /\ d[link].href # None
    /\ d[link].href # <<>>
    /\ d[link].href[1] = "#"
    /\ LinkText(d, link) # <<>>
    /\ \A own \in TocSelfTitles : Lower(LinkText(d, link)) # own

\* The levels N for which the nearest li around a link has the class
\* toclevel-N.
ToclevelClasses(d, link) ==
    IF find_parent(d, link, "li") = 0 THEN {}
    ELSE {n \in 0..9 :
            Chars("toclevel-") \o <<Digits[n + 1]>> \in Range(d[find_parent(d, link, "li")].class)}

\* The entries are those of the qualifying anchors among the links, in
\* document order, each with the href of its anchor, its cleaned text, and
\* the level N of the class toclevel-N of its li.
EntriesOfLinks(entries, d, links) ==
    LET kept == SelectSeq(links, LAMBDA link : Qualifies(d, link))
    IN /\ Len(entries) = Len(kept)
       /\ \A k \in 1..Len(kept) :
             /\ entries[k].href = d[kept[k]].href
             /\ entries[k].title = LinkText(d, kept[k])
             /\ \A n \in 0..9 : ToclevelClasses(d, kept[k]) = {n} => entries[k].level = n

(* C25: when the page has a div with id toc, one entry is emitted for each
   anchor below it whose href starts with "#" and whose cleaned text is not
   filtered out, in document order; an anchor whose nearest li has a class
   toclevel-N gets level N; an anchor whose href does not start with "#"
   gives no entry. *)
C25_OneEntryPerTocAnchor ==
    /\ spc = "links" => EntriesOfLinks(toc_items, doc, SubSeq(toc_links(doc), 1, cursor - 1))
    /\ spc = "return" => EntriesOfLinks(toc_items, doc, toc_links(doc))
    /\ (spc = "returned" /\ \E k \in 1..Len(toc_links(doc)) : Qualifies(doc, toc_links(doc)[k]))
          => EntriesOfLinks(Emitted, doc, toc_links(doc))

\* Two anchors under li of class toclevel-1 and toclevel-2 gave two entries
\* of level 1 and 2, in that order.
C25_Witness ==
    /\ spc = "returned"
    /\ Len(toc_links(doc)) = 2
    /\ ToclevelClasses(doc, toc_links(doc)[1]) = {1}
    /\ ToclevelClasses(doc, toc_links(doc)[2]) = {2}
    /\ Len(Emitted) = 2
    /\ Emitted[1].level = 1 /\ Emitted[1].title = Chars("History")
    /\ Emitted[2].level = 2 /\ Emitted[2].title = Chars("Early years")


\* Some anchor of the TOC container qualifies: the links give an entry.
SomeLinkQualifies(d) == \E k \in 1..Len(toc_links(d)) : Qualifies(d, toc_links(d)[k])

\* The text of a heading without its edit links, white space collapsed.
CleanHeadingText(d, heading) == HeadingText(Decomposed(d, heading), heading)

\* A heading is retained: its text is neither empty, nor begins with the
\* marker [編集], nor is a title of the TOC itself.
Retained(d, heading) ==
    /\ CleanHeadingText(d, heading) # <<>>
    /\ ~StartsWith(CleanHeadingText(d, heading), EditMarker)
    /\ \A own \in HeadingSelfTitles : Lower(CleanHeadingText(d, heading)) # own

\* The number in the name of a heading tag.
TagNumber(name) ==
    CASE name = "h2" -> 2 [] name = "h3" -> 3 [] name = "h4" -> 4
      [] name = "h5" -> 5 [] name = "h6" -> 6 [] OTHER -> 0

\* The title with every character outside the word characters and the kana
\* and kanji replaced by "_".
Underscored(text) == [k \in 1..Len(text) |-> IF IsWordChar(text[k]) THEN text[k] ELSE "_"]

\* The entries are those of the retained headings among hs, in document
\* order, each with the number of its tag as level and with its id, or
\* without an id its underscored title, as anchor.
EntriesOfHeadings(entries, d, hs) ==
    LET kept == SelectSeq(hs, LAMBDA heading : Retained(d, heading))
    IN /\ Len(entries) = Len(kept)
       /\ \A k \in 1..Len(kept) :
             /\ entries[k].level = TagNumber(d[kept[k]].name)
             /\ entries[k].title = CleanHeadingText(d, kept[k])
             /\ entries[k].anchor =
                   (IF d[kept[k]].id \notin {None, <<>>} THEN d[kept[k]].id
                    ELSE Underscored(entries[k].title))

(* C26: the heading fallback runs exactly when the TOC container gave no
   entry (no container, or every anchor filtered out), so the entries of
   the two paths are never mixed; in the fallback every retained h2..h6
   gives one entry, in document order, whose level is the number of the tag
   and whose anchor is the id of the element when it has one, and otherwise
   the title with every character outside the word characters, Hiragana,
   Katakana and CJK ideographs replaced by "_". *)
C26_FallbackWhenNoTocEntry ==
    /\ spc = "headings" =>
          /\ ~SomeLinkQualifies(doc)
          /\ EntriesOfHeadings(toc_items, doc, SubSeq(headings(doc), 1, cursor - 1))
    /\ spc = "return" => SomeLinkQualifies(doc)
    /\ spc = "returned" =>
          IF SomeLinkQualifies(doc)
          THEN EntriesOfLinks(Emitted, doc, toc_links(doc))
          ELSE EntriesOfHeadings(Emitted, doc, headings(doc))

\* A page without TOC container and with three headings h2 gave three
\* entries of level 2.
C26_Witness ==
    /\ spc = "returned"
    /\ toc_elem(doc) = 0
    /\ Len(headings(doc)) = 3
    /\ \A k \in 1..3 : doc[headings(doc)[k]].name = "h2"
    /\ Len(Emitted) = 3
    /\ \A k \in 1..3 : Emitted[k].level = 2


\* The display text of a TOC link: that of its span.toctext when it has
\* one, its own otherwise.
DisplayText(d, link) ==
    IF find_by_class(d, link, "span", Chars("toctext")) # 0
    THEN get_text_strip(d, find_by_class(d, link, "span", Chars("toctext")))
    ELSE get_text_strip(d, link)

\* The display text with its white space collapsed and trimmed, nothing
\* else removed.
Collapsed(d, link) == Strip(CollapseWhitespace(DisplayText(d, link)))

\* The links the loop over toc_links has dealt with.
LinksSeen ==
    IF spc = "links" THEN SubSeq(toc_links(doc), 1, cursor - 1)
    ELSE IF spc = "return" THEN toc_links(doc)
    ELSE <<>>

\* The link seen at position k was emitted with all the characters of its
\* display text, when that text leaves an entry at all.
KeptWhole(k) ==
    (/\ StartsWith(href_of(doc, LinksSeen[k]), <<"#">>)
     /\ Collapsed(doc, LinksSeen[k]) # <<>>
     /\ Lower(Collapsed(doc, LinksSeen[k])) \notin TocSelfTitles)
    => \E e \in 1..Len(toc_items) :
          /\ toc_items[e].title = Collapsed(doc, LinksSeen[k])
          /\ toc_items[e].href = href_of(doc, LinksSeen[k])

(* C27: on the TOC path the only leading text removed from the display
   text of an anchor is an ordinal digits(.digits)* followed by a space; a
   display text without such a prefix, one that starts with digits not
   followed by a space included ("3D printing", "2023"), keeps all its
   characters apart from the collapsing of white space, and is emitted. *)
C27_OnlyOrdinalWithSpaceRemoved ==
    \A k \in 1..Len(LinksSeen) :
        ~BeginsWithOrdinal(DisplayText(doc, LinksSeen[k])) => KeptWhole(k)

\* What holds of the display texts: one that does not begin with a digit
\* keeps all its characters and is emitted.
C27_TextWithoutLeadingDigitKept ==
    \A k \in 1..Len(LinksSeen) :
        (DisplayText(doc, LinksSeen[k]) = <<>> \/ ~IsDigit(DisplayText(doc, LinksSeen[k])[1]))
            => KeptWhole(k)


\* Node i is an edit-section element or lies inside one.
RECURSIVE InEditSection(_, _)
InEditSection(d, i) ==
    \/ d[i].name = "#decomposed"
    \/ d[i].name = "span" /\ Chars("mw-editsection") \in Range(d[i].class)
    \/ d[i].parent # 0 /\ InEditSection(d, d[i].parent)

\* The text of a heading outside its edit-section elements, white space
\* collapsed.
PlainText(d, heading) ==
    CollapseWhitespace(JoinStripped(d,
        Ordered({i \in 1..Len(d) : /\ d[i].name = "#text"
                                    /\ IsDescendant(d, i, heading)
                                    /\ ~InEditSection(d, i)})))

\* The bracketed edit markers.
EditMarkers == {Chars("[edit]"), EditMarker}

\* The headings the loop over the headings has dealt with.
HeadingsSeen ==
    IF spc = "headings" THEN SubSeq(headings(doc), 1, cursor - 1) ELSE <<>>

\* On the TOC path no title is one of TocSelfTitles; on the heading path no
\* title is one of HeadingSelfTitles or begins with one of the markers, no
\* title holds text of an edit-section element, and every other heading
\* with text has its entry.
NoSelfOrEditEntry(markers) ==
    /\ FromTocPath =>
          \A k \in 1..Len(toc_items) : Lower(toc_items[k].title) \notin TocSelfTitles
    /\ FromHeadingPath =>
          LET kept == SelectSeq(HeadingsSeen,
                                LAMBDA h : /\ PlainText(doc, h) # <<>>
                                           /\ Lower(PlainText(doc, h)) \notin HeadingSelfTitles
                                           /\ \A m \in markers : ~StartsWith(PlainText(doc, h), m))
          IN /\ Len(toc_items) = Len(kept)
             /\ \A k \in 1..Len(toc_items) :
                   /\ k <= Len(kept) => toc_items[k].title = PlainText(doc, kept[k])
                   /\ Lower(toc_items[k].title) \notin HeadingSelfTitles
                   /\ \A m \in markers : ~StartsWith(toc_items[k].title, m)

(* C28: no entry is a title of the TOC itself or an edit marker: on the
   TOC path no title equals, letter case ignored, "目次", "contents" or
   "table of contents"; on the heading path no title equals "目次" or
   "contents", none begins with a bracketed edit marker such as "[edit]" or
   "[編集]", text inside edit-section elements never shows in a title, and
   every other heading with text is emitted. *)
C28_NoSelfOrEditEntry == NoSelfOrEditEntry(EditMarkers)

\* What holds of the entries: the same with "[編集]" as the only marker.
C28_NoSelfOrJapaneseEditEntry == NoSelfOrEditEntry({EditMarker})


\* The nearest li around the link has no class toclevel-<digits>.
NoToclevelNumber(d, link) ==
    \/ find_parent(d, link, "li") = 0
    \/ \A c \in Range(d[find_parent(d, link, "li")].class) :
          ~(/\ StartsWith(c, Chars("toclevel-"))
            /\ Len(c) > Len(Chars("toclevel-"))
            /\ \A k \in (Len(Chars("toclevel-")) + 1)..Len(c) : IsDigit(c[k]))

\* The n-th node above node i, 0 past the top of the page.
RECURSIVE AncestorAt(_, _, _)
AncestorAt(d, i, n) ==
    IF i = 0 THEN 0 ELSE IF n = 0 THEN i ELSE AncestorAt(d, d[i].parent, n - 1)

\* The elements of the given names around node i.
Around(d, i, names) == {j \in 1..Len(d) : d[j].name \in names /\ j # i /\ IsDescendant(d, i, j)}

\* One of the five nodes above the link is a ul.
UlWithinFive(d, link) ==
    \E n \in 1..5 : AncestorAt(d, link, n) # 0 /\ d[AncestorAt(d, link, n)].name = "ul"

(* C29, as get_heading_level_from_toc_item computes it: for a link whose
   nearest li has no class toclevel-<N>, the level is the number of ul
   elements around the link when one of the five nodes above the link is a
   ul, and 1 otherwise: a link in k nested ul within that reach gets k, a
   link without a ul around it, or with its nearest ul more than five
   nodes above, or in ol lists only, gets 1. *)
C29_LevelIsNumberOfLists ==
    \A k \in 1..Len(toc_links(doc)) :
        \A link \in {toc_links(doc)[k]} :
            NoToclevelNumber(doc, link) =>
                get_heading_level_from_toc_item(doc, link) =
                    (IF UlWithinFive(doc, link)
                     THEN Cardinality(Around(doc, link, {"ul"}))
                     ELSE 1)

\* A link without class in two nested ul gave an entry of level 2.
C29_Witness ==
    /\ spc = "links"
    /\ cursor = 2
    /\ NoToclevelNumber(doc, toc_links(doc)[1])
    /\ Cardinality(Around(doc, toc_links(doc)[1], {"ul"})) = 2
    /\ Len(toc_items) = 1
    /\ toc_items[1].level = 2

(* C29, as stated, for the links it is clearest about: a link whose li has
   no well-formed class toclevel-N and that lies directly in the li of k
   nested ul lists, k up to 4, gets the level k + 1. *)
C29_LevelIsNumberOfListsPlusOne ==
    \A k \in 1..Len(toc_links(doc)) :
        \A link \in {toc_links(doc)[k]} :
            (/\ NoToclevelNumber(doc, link)
             /\ doc[doc[link].parent].name = "li"
             /\ Around(doc, link, {"ul"}) # {}
             /\ Cardinality(Around(doc, link, {"ul"})) <= 4) =>
                get_heading_level_from_toc_item(doc, link) =
                    Cardinality(Around(doc, link, {"ul"})) + 1


(* C30: a response of lambda_handler carries a Cache-Control directive only
   when it is a scrape success: every response with a status other than
   200 (405, 400, the scrape failures 500 and 504, the internal error 500)
   has no Cache-Control header, and success in the body is true exactly
   when the status is 200. *)
C30_CacheControlOnlyOnSuccess ==
    hpc = "done" =>
        /\ response.statusCode # 200 => "Cache-Control" \notin DOMAIN response.headers
        /\ response.body.success <=> response.statusCode = 200

\* What holds of the responses: Cache-Control is on the responses that
\* carry a scrape result, success or failure, and on no other; success in
\* the body is true exactly when the status is 200.
C30_CacheControlOnScrapeResponses ==
    hpc = "done" =>
        /\ "Cache-Control" \in DOMAIN response.headers <=> result # NoResult
        /\ response.body.success <=> response.statusCode = 200

====
